---- MODULE Spec2Model ----
(***************************************************************************)
(* Vibe Check Slack app: clients, standup / feedback configurations,       *)
(* responses, the APScheduler job store, prompt dispatch, the Slack retry   *)
(* wrapper and the feedback alert rules.                                    *)
(*                                                                          *)
(* Three specifications share this module:                                  *)
(*   Spec          the application: database rows, scheduler jobs,          *)
(*                 dispatch and submissions                                 *)
(*   SpecRetry     one invocation of the slack_api_retry wrapper            *)
(*   SpecFeedback  FeedbackResponse properties and the vibe-channel header  *)
(***************************************************************************)
EXTENDS Bags, FiniteSets, Integers, Sequences, TLC

(***************************************************************************)
(* Bounds of the model                                                      *)
(***************************************************************************)
MaxClientId == 2
MaxDay == 1
\* prompts dispatched (in flight or delivered)
MaxPrompts == 2
\* rows of the two response tables together
MaxResponses == 2
\* failures of the environment (a commit or a Slack call that raises)
MaxFaults == 1

ClientIds == 1..MaxClientId
Days == 0..MaxDay
\* app.py runs in single-workspace mode: the one team of SLACK_BOT_TOKEN
Teams == {"T1"}
WorkspaceIds == {1, 2}

\* the teams whose bot token the process may be configured with, one after
\* the other, on the same database
InstalledTeams == {"T1", "T2"}

\* Values the add-client modal offers (a representative subset of the
\* timezone list; both schedule types; two times of day).
AddClientInputs ==
  { [timezone |-> "America/New_York", schedule_type |-> "daily",
     schedule_time |-> [hour |-> 9, minute |-> 0]],
    [timezone |-> "UTC", schedule_type |-> "monday_only",
     schedule_time |-> [hour |-> 14, minute |-> 30]] }

(***************************************************************************)
(* Rows                                                                     *)
(***************************************************************************)
NoRow == [exists |-> FALSE]

Client(workspace_id, timezone) ==
  [exists |-> TRUE, workspace_id |-> workspace_id, timezone |-> timezone,
   is_active |-> TRUE]

StandupConfig(schedule_type, schedule_time) ==
  [exists |-> TRUE, schedule_type |-> schedule_type,
   schedule_time |-> schedule_time, is_paused |-> FALSE]

\* add_client creates the feedback config with dt_time(15, 0)
FeedbackConfig ==
  [exists |-> TRUE, schedule_time |-> [hour |-> 15, minute |-> 0],
   is_enabled |-> TRUE]

StandupResponse(client_id, workspace_id, scheduled_date) ==
  [client_id |-> client_id, workspace_id |-> workspace_id,
   scheduled_date |-> scheduled_date]

FeedbackResponse(client_id, workspace_id, week_ending) ==
  [client_id |-> client_id, workspace_id |-> workspace_id,
   week_ending |-> week_ending]

(***************************************************************************)
(* Scheduler job store                                                      *)
(***************************************************************************)
\* a key that leaves the client id out
job_id_standup_no_client(workspace_id, client_id) ==
  "standup_" \o ToString(workspace_id)

\* Client.job_id_standup / remove_standup_job: f"standup_{workspace_id}_{id}"
job_id_standup(workspace_id, client_id) ==
  "standup_" \o ToString(workspace_id) \o "_" \o ToString(client_id)

\* Client.job_id_feedback / remove_feedback_job
job_id_feedback(workspace_id, client_id) ==
  "feedback_" \o ToString(workspace_id) \o "_" \o ToString(client_id)

\* a trigger built without the timezone argument: the scheduler's own zone
CronTrigger_no_timezone(day_of_week, schedule_time, timezone) ==
  [day_of_week |-> day_of_week, hour |-> schedule_time.hour,
   minute |-> schedule_time.minute, timezone |-> "UTC"]

\* CronTrigger(day_of_week=..., hour=..., minute=..., timezone=...); a field
\* the call leaves out is "*"
CronTrigger(day_of_week, schedule_time, timezone) ==
  [day_of_week |-> day_of_week, hour |-> schedule_time.hour,
   minute |-> schedule_time.minute, timezone |-> timezone]

JobsWithId(store, job_id) == { j \in BagToSet(store) : j.id = job_id }

\* scheduler.get_job(job_id) is not None
get_job(store, job_id) == JobsWithId(store, job_id) # {}

\* scheduler.remove_job(job_id)
remove_job(store, job_id) ==
  [ j \in { k \in BagToSet(store) : k.id # job_id } |-> store[j] ]

\* scheduler.add_job(..., replace_existing=True): a job stored under the
\* same id is replaced
add_job(store, job) == remove_job(store, job.id) (+) SetToBag({job})

\* add_standup_job without the schedule_type branches: always daily
add_standup_job_always_daily(scheduler_up, store, client_id, client, config) ==
  IF ~scheduler_up THEN store
  ELSE add_job(store,
         [id |-> job_id_standup(client.workspace_id, client_id),
          func |-> "send_standup_job",
          args |-> <<client.workspace_id, client_id>>,
          trigger |-> CronTrigger("*", config.schedule_time, client.timezone)])

add_standup_job(scheduler_up, store, client_id, client, config) ==
  IF ~scheduler_up THEN store
  ELSE
    LET job_id == job_id_standup(client.workspace_id, client_id)
        cleared == IF get_job(store, job_id) THEN remove_job(store, job_id)
                   ELSE store
        job(trigger) == [id |-> job_id, func |-> "send_standup_job",
                         args |-> <<client.workspace_id, client_id>>,
                         trigger |-> trigger]
    IN IF config.schedule_type = "daily"
         THEN add_job(cleared,
                job(CronTrigger("*", config.schedule_time, client.timezone)))
       ELSE IF config.schedule_type = "monday_only"
         THEN add_job(cleared,
                job(CronTrigger("mon", config.schedule_time, client.timezone)))
       ELSE cleared

add_feedback_job(scheduler_up, store, client_id, client, config) ==
  IF ~scheduler_up THEN store
  ELSE
    LET job_id == job_id_feedback(client.workspace_id, client_id)
        cleared == IF get_job(store, job_id) THEN remove_job(store, job_id)
                   ELSE store
    IN add_job(cleared,
         [id |-> job_id, func |-> "send_feedback_job",
          args |-> <<client.workspace_id, client_id>>,
          trigger |-> CronTrigger("fri", config.schedule_time, client.timezone)])

remove_standup_job(scheduler_up, store, client_id, workspace_id) ==
  IF ~scheduler_up THEN store
  ELSE LET job_id == job_id_standup(workspace_id, client_id)
       IN IF get_job(store, job_id) THEN remove_job(store, job_id) ELSE store

remove_feedback_job(scheduler_up, store, client_id, workspace_id) ==
  IF ~scheduler_up THEN store
  ELSE LET job_id == job_id_feedback(workspace_id, client_id)
       IN IF get_job(store, job_id) THEN remove_job(store, job_id) ELSE store

(***************************************************************************)
(* State                                                                    *)
(***************************************************************************)
VARIABLES
  db_sqlite,           \* config.DATABASE_URL.startswith('sqlite')
  scheduler,           \* the global scheduler is not None (process is up)
  workspaces,          \* workspaces table: id -> team_id, or "" (no row)
  clients,             \* clients table: id -> row
  client_seq,          \* last value of the clients id sequence (PostgreSQL)
  standup_configs,     \* standup_configs table, by client_id (unique)
  feedback_configs,    \* feedback_configs table, by client_id (unique)
  standup_responses,   \* standup_responses table: bag of rows
  feedback_responses,  \* feedback_responses table: bag of rows
  jobs,                \* the scheduler's job store: bag of jobs
  today,               \* date.today()
  inflight,            \* dispatches between their checks and the Slack call
  sent,                \* prompt messages delivered by Slack
  faults,              \* failures of the environment so far
  \* one invocation of the wrapper of slack_api_retry
  pc,                  \* "idle", "call", "sleep", "returned" or "raised"
  attempt,             \* the loop variable of the wrapper
  outcomes,            \* what each call of the wrapped function did
  delay,               \* the delay of the pending sleep, in milliseconds
  slept,               \* the delays slept so far
  result,              \* the value the wrapper returned
  raised,              \* the exception the wrapper raised
  \* one FeedbackResponse and its post to the vibe channel
  response,            \* the FeedbackResponse object
  alert_emoji,         \* the marker in the header of the post
  \* one run of a fired job function (send_standup_job / send_feedback_job)
  job_pc,              \* "idle" or the statement the run is at
  job_args,            \* the job that is run
  job_exception,       \* the last exception raised in the run, or "none"
  job_log,             \* the handlers that logged an error in the run
  job_result,          \* "none", "running", "returned" or "raised"
  \* one db_transaction block
  tx_pc,               \* "idle", "block", "commit", "except" or "finally"
  db_rows,             \* the committed rows of the database
  session_rows,        \* the rows as the session of the block sees them
  session_open,        \* the session is not closed
  tx_before,           \* the committed rows when the block was entered
  tx_exception,        \* what raised in the block: "none", "block", "commit"
  tx_result,           \* "none", "running", "returned" or what is raised
  \* one submission of a prompt's form
  form,                \* the payload of the submission
  form_saved,          \* the row the handler saved, or NoRow
  \* one request to an admin or API endpoint
  admin_request,       \* the endpoint and the keys of the request
  admin_response,      \* the status and whether the handler ran
  \* the workspaces table
  workspace_rows,      \* the rows of the table
  workspace_seq,       \* last value of the id sequence
  workspace_clients,   \* (workspace_id, slack_user_id) of the clients rows
  create_call,         \* the last create_workspace call, or NoCall
  \* the modal submissions
  view_submission,     \* callback_id and user of the last submission
  vibe_check_channel_id, \* the column of the workspace row
  \* the prompt messages and the vibe channel
  confirmed,           \* prompts whose message shows the confirmation
  vibe_posts,          \* (client_id, week_ending) of the posts to the channel
  \* the Slack call of one prompt dispatch
  dm_kind,             \* "none", or the prompt type that is sent
  \* one save_feedback_response call after another
  save_pc,             \* where the call is
  save_args,           \* client_id and week_ending of the call
  response_id,         \* id of the row the call committed, 0 before
  fb_table,            \* the committed rows of feedback_responses
  channel_messages,    \* ids of the responses posted to the vibe channel
  vibe_channel,        \* vibe_check_channel_id of the workspace row
  \* one process after another on one database
  bot_team,            \* team of the SLACK_BOT_TOKEN of the process, or ""
  modal                \* the last client modal submission

retryVars == <<pc, attempt, outcomes, delay, slept, result, raised>>

alertVars == <<response, alert_emoji>>

jobVars == <<job_pc, job_args, job_exception, job_log, job_result>>

txVars == <<tx_pc, db_rows, session_rows, session_open, tx_before,
           tx_exception, tx_result>>

formVars == <<form, form_saved>>

adminVars == <<admin_request, admin_response>>

workspaceVars == <<workspace_rows, workspace_seq, workspace_clients, create_call>>

viewVars == <<view_submission, vibe_check_channel_id>>

testVars == <<confirmed, vibe_posts>>

dmVars == <<dm_kind>>

saveVars == <<save_pc, save_args, response_id, fb_table, channel_messages,
             vibe_channel>>

tenantVars == <<bot_team, modal>>

appVars == <<db_sqlite, scheduler, workspaces, clients, client_seq,
             standup_configs, feedback_configs, standup_responses,
             feedback_responses, jobs, today, inflight, sent, faults>>

\* what the actions of one part leave alone of the other parts
otherThanApp == <<retryVars, alertVars, jobVars, txVars, formVars, adminVars,
   workspaceVars, viewVars, testVars, dmVars,
   saveVars, tenantVars>>

otherThanRetry == <<appVars, alertVars, jobVars, txVars, formVars, adminVars,
   workspaceVars, viewVars, testVars, dmVars,
   saveVars, tenantVars>>

otherThanAlert == <<appVars, retryVars, jobVars, txVars, formVars, adminVars,
   workspaceVars, viewVars, testVars, dmVars,
   saveVars, tenantVars>>

otherThanJob == <<retryVars, alertVars, txVars, formVars, adminVars,
   workspaceVars, viewVars, testVars, dmVars,
   saveVars, tenantVars>>

otherThanTx == <<appVars, retryVars, alertVars, jobVars, formVars, adminVars,
   workspaceVars, viewVars, testVars, dmVars,
   saveVars, tenantVars>>

otherThanForm == <<appVars, retryVars, alertVars, jobVars, txVars, adminVars,
   workspaceVars, viewVars, testVars, dmVars,
   saveVars, tenantVars>>

otherThanAdmin == <<appVars, retryVars, alertVars, jobVars, txVars, formVars,
   workspaceVars, viewVars, testVars, dmVars,
   saveVars, tenantVars>>

otherThanWorkspace == <<appVars, retryVars, alertVars, jobVars, txVars, formVars,
   adminVars, viewVars, testVars, dmVars,
   saveVars, tenantVars>>

otherThanView == <<retryVars, alertVars, jobVars, txVars, formVars, adminVars,
   workspaceVars, testVars, dmVars,
   saveVars, tenantVars>>

otherThanTest == <<retryVars, alertVars, jobVars, txVars, formVars, adminVars,
   workspaceVars, viewVars, dmVars,
   saveVars, tenantVars>>

otherThanDm == <<appVars, alertVars, jobVars, txVars, formVars, adminVars,
   workspaceVars, viewVars, testVars,
   saveVars, tenantVars>>

otherThanSave == <<appVars, retryVars, alertVars, jobVars, txVars, formVars,
   adminVars, workspaceVars, viewVars, testVars, dmVars, tenantVars>>

otherThanTenant == <<retryVars, alertVars, jobVars, txVars, formVars,
   adminVars, workspaceVars, viewVars, testVars, dmVars, saveVars>>

\* The tables and the job store as a client service finds them; returned is
\* what the service returns.
Store ==
  [clients |-> clients, client_seq |-> client_seq,
   standup_configs |-> standup_configs, feedback_configs |-> feedback_configs,
   standup_responses |-> standup_responses,
   feedback_responses |-> feedback_responses,
   jobs |-> jobs, returned |-> FALSE]

\* the tables and the job store as a client service leaves them
Becomes(s) ==
  /\ clients' = s.clients
  /\ client_seq' = s.client_seq
  /\ standup_configs' = s.standup_configs
  /\ feedback_configs' = s.feedback_configs
  /\ standup_responses' = s.standup_responses
  /\ feedback_responses' = s.feedback_responses
  /\ jobs' = s.jobs

\* An outcome of the environment: ok, or a failure while the model's budget
\* of failures lasts
Environment(ok) ==
  /\ ok \/ faults < MaxFaults
  /\ faults' = IF ok THEN faults ELSE faults + 1

SetMax(S) == CHOOSE m \in S : \A n \in S : n <= m

\* get_workspace_by_team_id(team_id): the id of the row, 0 when there is none
get_workspace_by_team_id(team_id) ==
  IF \E w \in WorkspaceIds : workspaces[w] = team_id
    THEN CHOOSE w \in WorkspaceIds : workspaces[w] = team_id
    ELSE 0

\* the id the database gives the next clients row: SQLite takes the largest
\* rowid plus one, PostgreSQL the next value of the sequence
NextClientId(s) ==
  IF db_sqlite
    THEN LET used == { c \in ClientIds : s.clients[c].exists }
         IN IF used = {} THEN 1 ELSE SetMax(used) + 1
    ELSE s.client_seq + 1

\* the query without its is_paused filter
ActiveStandupClients_with_paused ==
  { c \in ClientIds : /\ standup_configs[c].exists
                      /\ clients[c].exists
                      /\ clients[c].is_active = TRUE }

\* session.query(StandupConfig).join(Client).filter(is_paused == False,
\* is_active == True)
ActiveStandupClients ==
  { c \in ClientIds : /\ standup_configs[c].exists
                      /\ clients[c].exists
                      /\ standup_configs[c].is_paused = FALSE
                      /\ clients[c].is_active = TRUE }

ActiveFeedbackClients ==
  { c \in ClientIds : /\ feedback_configs[c].exists
                      /\ clients[c].exists
                      /\ feedback_configs[c].is_enabled = TRUE
                      /\ clients[c].is_active = TRUE }

RECURSIVE AddStandupJobs(_, _)
AddStandupJobs(store, cs) ==
  IF cs = {} THEN store
  ELSE LET c == CHOOSE x \in cs : TRUE
       IN AddStandupJobs(
            add_standup_job(TRUE, store, c, clients[c], standup_configs[c]),
            cs \ {c})

RECURSIVE AddFeedbackJobs(_, _)
AddFeedbackJobs(store, cs) ==
  IF cs = {} THEN store
  ELSE LET c == CHOOSE x \in cs : TRUE
       IN AddFeedbackJobs(
            add_feedback_job(TRUE, store, c, clients[c], feedback_configs[c]),
            cs \ {c})

sync_jobs_from_database(store) ==
  AddFeedbackJobs(AddStandupJobs(store, ActiveStandupClients),
                  ActiveFeedbackClients)

AppInit ==
  /\ db_sqlite \in BOOLEAN
  /\ scheduler = FALSE
  /\ workspaces = [w \in WorkspaceIds |-> ""]
  /\ clients = [c \in ClientIds |-> NoRow]
  /\ client_seq = 0
  /\ standup_configs = [c \in ClientIds |-> NoRow]
  /\ feedback_configs = [c \in ClientIds |-> NoRow]
  /\ standup_responses = EmptyBag
  /\ feedback_responses = EmptyBag
  /\ jobs = EmptyBag
  /\ today = 0
  /\ inflight = EmptyBag
  /\ sent = EmptyBag
  /\ faults = 0

(***************************************************************************)
(* Process start and stop                                                   *)
(***************************************************************************)
\* app.py init_full_app: the workspace row of the configured bot token is
\* created when missing, then init_scheduler starts the scheduler and loads
\* the jobs from the database.  setup_ok = FALSE: the workspace set-up raised
\* and was skipped with a warning.
init_full_app(team, setup_ok) ==
  /\ ~scheduler
  /\ Environment(setup_ok)
  /\ LET free == { w \in WorkspaceIds : workspaces[w] = "" }
         used == WorkspaceIds \ free
         new_id == IF used = {} THEN 1 ELSE SetMax(used) + 1
     IN workspaces' =
          IF setup_ok /\ get_workspace_by_team_id(team) = 0
             /\ new_id \in WorkspaceIds
            THEN [workspaces EXCEPT ![new_id] = team]
            ELSE workspaces
  /\ scheduler' = TRUE
  \* MemoryJobStore starts empty; SQLAlchemyJobStore holds the stored jobs
  /\ jobs' = sync_jobs_from_database(IF db_sqlite THEN EmptyBag ELSE jobs)
  /\ UNCHANGED <<db_sqlite, clients, client_seq, standup_configs,
                 feedback_configs, standup_responses, feedback_responses,
                 today, inflight, sent>>

Startup(team, setup_ok) ==
  /\ init_full_app(team, setup_ok)
  /\ UNCHANGED otherThanApp

\* The process stops: the global scheduler, its worker threads and a
\* MemoryJobStore are gone; the database (and a SQLAlchemyJobStore) stays.
ProcessStops ==
  /\ scheduler
  /\ faults' = faults
  /\ scheduler' = FALSE
  /\ jobs' = IF db_sqlite THEN EmptyBag ELSE jobs
  /\ inflight' = EmptyBag
  /\ UNCHANGED <<db_sqlite, workspaces, clients, client_seq, standup_configs,
                 feedback_configs, standup_responses, feedback_responses,
                 today, sent>>

Shutdown ==
  /\ ProcessStops
  /\ UNCHANGED otherThanApp

(***************************************************************************)
(* Client management (services/client_service.py)                           *)
(***************************************************************************)
\* add_client(workspace_id, ..., timezone, schedule_type, schedule_time):
\* the jobs are added while the transaction is open; commit_ok = FALSE: the
\* commit of db_transaction raised and the rows are rolled back.  The id
\* taken from the sequence is not given back.
add_client(s, workspace_id, inp, commit_ok) ==
  LET id == NextClientId(s)
      client == Client(workspace_id, inp.timezone)
      config == StandupConfig(inp.schedule_type, inp.schedule_time)
      jobs1 == add_standup_job(scheduler, s.jobs, id, client, config)
      jobs2 == add_feedback_job(scheduler, jobs1, id, client, FeedbackConfig)
  IN [s EXCEPT
        !.jobs = jobs2,
        !.client_seq = IF db_sqlite THEN @ ELSE id,
        !.clients = IF commit_ok THEN [@ EXCEPT ![id] = client] ELSE @,
        !.standup_configs = IF commit_ok THEN [@ EXCEPT ![id] = config] ELSE @,
        !.feedback_configs =
          IF commit_ok THEN [@ EXCEPT ![id] = FeedbackConfig] ELSE @,
        !.returned = commit_ok]

\* pause_client_standups(client_id)
pause_client_standups(s, client_id, commit_ok) ==
  IF s.clients[client_id].exists /\ s.standup_configs[client_id].exists
    THEN [s EXCEPT
            !.jobs = remove_standup_job(scheduler, @, client_id,
                                        s.clients[client_id].workspace_id),
            !.standup_configs =
              IF commit_ok THEN [@ EXCEPT ![client_id].is_paused = TRUE]
              ELSE @,
            !.returned = commit_ok]
    ELSE [s EXCEPT !.returned = FALSE]

\* resume_client_standups(client_id)
resume_client_standups(s, client_id, commit_ok) ==
  IF s.clients[client_id].exists /\ s.standup_configs[client_id].exists
    THEN [s EXCEPT
            !.jobs = add_standup_job(scheduler, @, client_id,
                       s.clients[client_id],
                       [s.standup_configs[client_id]
                          EXCEPT !.is_paused = FALSE]),
            !.standup_configs =
              IF commit_ok THEN [@ EXCEPT ![client_id].is_paused = FALSE]
              ELSE @,
            !.returned = commit_ok]
    ELSE [s EXCEPT !.returned = FALSE]

\* cascade='all, delete-orphan' without the rows: a response table is left
\* as it is
KeepResponses(table, client_id) == table

\* rows of a response table left after session.delete(client) has cascaded
\* a delete without its client_id filter
DeleteAllResponses(table, client_id) == EmptyBag

DeleteResponsesOf(table, client_id) ==
  [ r \in { x \in BagToSet(table) : x.client_id # client_id } |-> table[r] ]

\* remove_client(client_id)
remove_client(s, client_id, commit_ok) ==
  IF s.clients[client_id].exists
    THEN [s EXCEPT
            !.jobs = remove_feedback_job(scheduler,
                       remove_standup_job(scheduler, @, client_id,
                                          s.clients[client_id].workspace_id),
                       client_id, s.clients[client_id].workspace_id),
            !.clients = IF commit_ok THEN [@ EXCEPT ![client_id] = NoRow]
                        ELSE @,
            !.standup_configs =
              IF commit_ok THEN [@ EXCEPT ![client_id] = NoRow] ELSE @,
            !.feedback_configs =
              IF commit_ok THEN [@ EXCEPT ![client_id] = NoRow] ELSE @,
            !.standup_responses =
              IF commit_ok THEN DeleteResponsesOf(@, client_id) ELSE @,
            !.feedback_responses =
              IF commit_ok THEN DeleteResponsesOf(@, client_id) ELSE @,
            !.returned = commit_ok]
    ELSE [s EXCEPT !.returned = FALSE]

\* handle_add_client_submission -> add_client, for a team that has a
\* workspace row (without one, or when users_info raises, the handler logs
\* the error and nothing changes)
handle_add_client_submission(team, inp, commit_ok) ==
  /\ scheduler
  /\ get_workspace_by_team_id(team) # 0
  /\ NextClientId(Store) \in ClientIds
  /\ Environment(commit_ok)
  /\ Becomes(add_client(Store, get_workspace_by_team_id(team), inp, commit_ok))
  /\ UNCHANGED <<db_sqlite, scheduler, workspaces, today, inflight, sent>>

\* a submission of the modal
AddClient(team, inp, commit_ok) ==
  /\ handle_add_client_submission(team, inp, commit_ok)
  /\ UNCHANGED otherThanApp

\* handle_pause_client_submission -> pause_client_standups, for a client
\* that has a standup config (for another the service changes nothing)
handle_pause_client_submission(client_id, commit_ok) ==
  /\ scheduler
  /\ clients[client_id].exists /\ standup_configs[client_id].exists
  /\ Environment(commit_ok)
  /\ Becomes(pause_client_standups(Store, client_id, commit_ok))
  /\ UNCHANGED <<db_sqlite, scheduler, workspaces, today, inflight, sent>>

\* a submission of the modal
PauseClient(client_id, commit_ok) ==
  /\ handle_pause_client_submission(client_id, commit_ok)
  /\ UNCHANGED otherThanApp

\* handle_resume_client_submission -> resume_client_standups
handle_resume_client_submission(client_id, commit_ok) ==
  /\ scheduler
  /\ clients[client_id].exists /\ standup_configs[client_id].exists
  /\ Environment(commit_ok)
  /\ Becomes(resume_client_standups(Store, client_id, commit_ok))
  /\ UNCHANGED <<db_sqlite, scheduler, workspaces, today, inflight, sent>>

\* a submission of the modal
ResumeClient(client_id, commit_ok) ==
  /\ handle_resume_client_submission(client_id, commit_ok)
  /\ UNCHANGED otherThanApp

\* handle_remove_client_submission -> remove_client, for a client that
\* exists
handle_remove_client_submission(client_id, commit_ok) ==
  /\ scheduler
  /\ clients[client_id].exists
  /\ Environment(commit_ok)
  /\ Becomes(remove_client(Store, client_id, commit_ok))
  /\ UNCHANGED <<db_sqlite, scheduler, workspaces, today, inflight, sent>>

\* a submission of the modal
RemoveClient(client_id, commit_ok) ==
  /\ handle_remove_client_submission(client_id, commit_ok)
  /\ UNCHANGED otherThanApp

(***************************************************************************)
(* The admin and API endpoints (app_factory.require_admin_auth)             *)
(***************************************************************************)
AdminEndpoints ==
  {"/admin", "/admin/refresh", "/admin/send/standup/<id>",
   "/admin/send/feedback/<id>", "/api/clients", "/api/jobs"}

\* a key as the environment, the X-Admin-Key header or the key query
\* parameter gives it; "" when it is not given
AdminKeys == {"", "k1", "k2"}

\* the fields of the Config dataclass
ConfigFields ==
  {"SLACK_CLIENT_ID", "SLACK_CLIENT_SECRET", "SLACK_SIGNING_SECRET",
   "DATABASE_URL", "ENCRYPTION_KEY", "SLACK_BOT_TOKEN", "PORT", "LOG_LEVEL",
   "RAILWAY_STATIC_URL", "ENABLE_REMINDERS", "REMINDER_DELAY_HOURS",
   "DATA_RETENTION_DAYS"}

AdminResponse(status, handler_run) ==
  [status |-> status, handler_run |-> handler_run]

\* decorated_function of require_admin_auth for a request.  Reading
\* config.ADMIN_API_KEY raises AttributeError when Config has no such
\* field: the view raises and the response is 500.
require_admin_auth(env_key, header_key, query_key) ==
  IF "ADMIN_API_KEY" \notin ConfigFields THEN AdminResponse(500, FALSE)
  ELSE IF env_key = "" THEN AdminResponse(503, FALSE)
  ELSE LET provided_key == IF header_key # "" THEN header_key ELSE query_key
       IN IF provided_key = "" THEN AdminResponse(401, FALSE)
          ELSE IF provided_key # env_key THEN AdminResponse(403, FALSE)
          ELSE AdminResponse(200, TRUE)

(***************************************************************************)
(* Prompt dispatch                                                          *)
(***************************************************************************)
\* get_bot_token(workspace_id) is not None: the workspace row exists (its
\* bot_token column is not nullable)
get_bot_token(workspace_id) ==
  workspace_id \in WorkspaceIds /\ workspaces[workspace_id] # ""

\* the dispatch without its query for a response of today
no_existing_check(client_id, day) == FALSE

\* send_standup_dm: session.query(StandupResponse).filter_by(client_id=...,
\* scheduled_date=today).first() is not None
ExistingStandup(client_id, day) ==
  \E r \in BagToSet(standup_responses) :
    r.client_id = client_id /\ r.scheduled_date = day

\* send_feedback_dm: the same query on FeedbackResponse with week_ending=today
ExistingFeedback(client_id, day) ==
  \E r \in BagToSet(feedback_responses) :
    r.client_id = client_id /\ r.week_ending = day

Prompt(kind, workspace_id, client_id, day) ==
  [kind |-> kind, workspace_id |-> workspace_id, client_id |-> client_id,
   date |-> day]

\* send_standup_dm / send_feedback_dm up to the query for a response of
\* today: the client exists and is active and the workspace has a bot token
Reaches(workspace_id, client_id) ==
  /\ clients[client_id].exists
  /\ clients[client_id].is_active
  /\ get_bot_token(workspace_id)

\* a dispatch that also skips a period it has already prompted for
send_standup_dm_dedup(queue, workspace_id, client_id) ==
  LET prompt == Prompt("standup", workspace_id, client_id, today)
  IN IF ~Reaches(workspace_id, client_id) THEN queue
     ELSE IF ExistingStandup(client_id, today) THEN queue
     ELSE IF CopiesIn(prompt, queue) + CopiesIn(prompt, sent) > 0 THEN queue
     ELSE queue (+) SetToBag({prompt})

\* send_standup_dm(workspace_id, client_id) up to the Slack call: the
\* prompts that are in flight after it, given the ones before it
send_standup_dm(queue, workspace_id, client_id) ==
  IF ~Reaches(workspace_id, client_id) THEN queue
  ELSE IF ExistingStandup(client_id, today) THEN queue
  ELSE queue (+) SetToBag({Prompt("standup", workspace_id, client_id, today)})

\* send_feedback_dm(workspace_id, client_id) up to the Slack call
send_feedback_dm(queue, workspace_id, client_id) ==
  IF ~Reaches(workspace_id, client_id) THEN queue
  ELSE IF ExistingFeedback(client_id, today) THEN queue
  ELSE queue (+) SetToBag({Prompt("feedback", workspace_id, client_id, today)})

\* a dispatch runs up to its Slack call
Dispatch(kind, workspace_id, client_id) ==
  /\ inflight' = IF kind = "standup"
                   THEN send_standup_dm(inflight, workspace_id, client_id)
                   ELSE send_feedback_dm(inflight, workspace_id, client_id)
  /\ BagCardinality(inflight') + BagCardinality(sent) <= MaxPrompts
  /\ UNCHANGED <<db_sqlite, scheduler, workspaces, clients, client_seq,
                 standup_configs, feedback_configs, standup_responses,
                 feedback_responses, jobs, today, sent, faults>>
  /\ UNCHANGED otherThanApp

\* The scheduler fires a stored job: send_standup_job / send_feedback_job
\* call the dispatch with the job's args.  When a trigger is due is the
\* library's business; here a stored job may fire at any moment.
FireJob(job) ==
  /\ scheduler
  /\ job \in BagToSet(jobs)
  /\ Dispatch(IF job.func = "send_standup_job" THEN "standup" ELSE "feedback",
              job.args[1], job.args[2])

\* /admin/send/standup/<client_id> and /admin/send/feedback/<client_id>, for
\* a client that exists: send_standup_now / send_feedback_now run when
\* require_admin_auth lets the request through
AdminSend(kind, client_id, env_key, header_key, query_key) ==
  /\ scheduler
  /\ require_admin_auth(env_key, header_key, query_key).handler_run
  /\ clients[client_id].exists
  /\ Dispatch(kind, clients[client_id].workspace_id, client_id)

\* The Slack call of a dispatch that passed its checks: the message is
\* delivered (slack_ok) or the call raises, which the dispatch logs.
PostPrompt(prompt, slack_ok) ==
  /\ scheduler
  /\ prompt \in BagToSet(inflight)
  /\ Environment(slack_ok)
  /\ inflight' = inflight (-) SetToBag({prompt})
  /\ sent' = IF slack_ok THEN sent (+) SetToBag({prompt}) ELSE sent
  /\ UNCHANGED <<db_sqlite, scheduler, workspaces, clients, client_seq,
                 standup_configs, feedback_configs, standup_responses,
                 feedback_responses, jobs, today>>
  /\ UNCHANGED otherThanApp

(***************************************************************************)
(* Response recording                                                       *)
(***************************************************************************)
\* The clients.id foreign key of a response row: PostgreSQL enforces it,
\* SQLite does not unless the foreign_keys pragma is set (it is not)
ForeignKeyOk(client_id) ==
  db_sqlite \/ (client_id \in ClientIds /\ clients[client_id].exists)

\* the table without its unique constraint
no_unique_constraint(table, row) == TRUE

\* UniqueConstraint('client_id', 'scheduled_date')
uq_standup_client_date(table, row) ==
  ~ \E r \in BagToSet(table) :
      r.client_id = row.client_id /\ r.scheduled_date = row.scheduled_date

\* save_standup_response(client_id, workspace_id, scheduled_date, ...): the
\* table after it.  The commit raises, and the row is not stored, when the
\* database fails (commit_ok = FALSE) or a constraint is violated.
save_standup_response(table, client_id, workspace_id, scheduled_date, commit_ok) ==
  LET row == StandupResponse(client_id, workspace_id, scheduled_date)
  IN IF /\ commit_ok
        /\ uq_standup_client_date(table, row)
        /\ ForeignKeyOk(client_id)
       THEN table (+) SetToBag({row})
       ELSE table

\* save_feedback_response(client_id, workspace_id, week_ending, ...)
save_feedback_response(table, client_id, workspace_id, week_ending, commit_ok) ==
  LET row == FeedbackResponse(client_id, workspace_id, week_ending)
  IN IF commit_ok /\ ForeignKeyOk(client_id)
       THEN table (+) SetToBag({row})
       ELSE table

\* handle_standup_submission -> save_standup_response for the button of a
\* delivered standup prompt.  The button value carries client_id and date,
\* the payload the team the prompt was posted in; without a workspace row of
\* the team the handler stops.
SubmitStandup(prompt, commit_ok) ==
  /\ scheduler
  /\ prompt \in BagToSet(sent)
  /\ prompt.kind = "standup"
  /\ Environment(commit_ok)
  /\ LET workspace_id ==
           get_workspace_by_team_id(workspaces[prompt.workspace_id])
     IN standup_responses' =
          IF workspace_id = 0 THEN standup_responses
          ELSE save_standup_response(standup_responses, prompt.client_id,
                                     workspace_id, prompt.date, commit_ok)
  /\ BagCardinality(standup_responses') + BagCardinality(feedback_responses)
       <= MaxResponses
  /\ UNCHANGED <<db_sqlite, scheduler, workspaces, clients, client_seq,
                 standup_configs, feedback_configs, feedback_responses, jobs,
                 today, inflight, sent>>
  /\ UNCHANGED otherThanApp

\* handle_feedback_submission -> save_feedback_response
SubmitFeedback(prompt, commit_ok) ==
  /\ scheduler
  /\ prompt \in BagToSet(sent)
  /\ prompt.kind = "feedback"
  /\ Environment(commit_ok)
  /\ LET workspace_id ==
           get_workspace_by_team_id(workspaces[prompt.workspace_id])
     IN feedback_responses' =
          IF workspace_id = 0 THEN feedback_responses
          ELSE save_feedback_response(feedback_responses, prompt.client_id,
                                      workspace_id, prompt.date, commit_ok)
  /\ BagCardinality(standup_responses) + BagCardinality(feedback_responses')
       <= MaxResponses
  /\ UNCHANGED <<db_sqlite, scheduler, workspaces, clients, client_seq,
                 standup_configs, feedback_configs, standup_responses, jobs,
                 today, inflight, sent>>
  /\ UNCHANGED otherThanApp

\* The calendar date advances
Tick ==
  /\ today < MaxDay
  /\ today' = today + 1
  /\ faults' = faults
  /\ UNCHANGED <<db_sqlite, scheduler, workspaces, clients, client_seq,
                 standup_configs, feedback_configs, standup_responses,
                 feedback_responses, jobs, inflight, sent>>
  /\ UNCHANGED otherThanApp

\* AdminSend is no step of the application: require_admin_auth lets no
\* request through (Config has no ADMIN_API_KEY field).
AppNext ==
  \/ \E team \in Teams, setup_ok \in BOOLEAN : Startup(team, setup_ok)
  \/ Shutdown
  \/ \E team \in Teams, inp \in AddClientInputs, commit_ok \in BOOLEAN :
       AddClient(team, inp, commit_ok)
  \/ \E c \in ClientIds, commit_ok \in BOOLEAN : PauseClient(c, commit_ok)
  \/ \E c \in ClientIds, commit_ok \in BOOLEAN : ResumeClient(c, commit_ok)
  \/ \E c \in ClientIds, commit_ok \in BOOLEAN : RemoveClient(c, commit_ok)
  \/ \E job \in BagToSet(jobs) : FireJob(job)
  \/ \E prompt \in BagToSet(inflight), slack_ok \in BOOLEAN :
       PostPrompt(prompt, slack_ok)
  \/ \E prompt \in BagToSet(sent), commit_ok \in BOOLEAN :
       SubmitStandup(prompt, commit_ok)
  \/ \E prompt \in BagToSet(sent), commit_ok \in BOOLEAN :
       SubmitFeedback(prompt, commit_ok)
  \/ Tick

(***************************************************************************)
(* The Slack retry wrapper (utils/slack_retry.py)                           *)
(***************************************************************************)
\* send_message_with_retry: @slack_api_retry(max_retries=3)
MaxRetries == 3
\* base_delay = 1.0 and max_delay = 30.0 seconds, in milliseconds
BaseDelayMs == 1000
MaxDelayMs == 30000
\* exponential_base = 2.0
ExponentialBase == 2

Min(a, b) == IF a <= b THEN a ELSE b

\* the Retry-After header of a rate-limit response: its decimal digits, as
\* Slack documents it (a whole number of seconds); <<>> when it is absent
RetryAfterHeaders == { <<>>, <<5>>, <<6, 0>> }

\* int(<header>)
RECURSIVE int(_)
int(digits) ==
  IF digits = <<>> THEN 0
  ELSE 10 * int(SubSeq(digits, 1, Len(digits) - 1)) + digits[Len(digits)]

\* values of 0.5 + random.random(), in thousandths: the ends of [0.5, 1.5)
Jitter == {500, 1499}

CallOutcome(kind, error, retry_after, value) ==
  [kind |-> kind, error |-> error, retry_after |-> retry_after,
   value |-> value]

NoException == CallOutcome("none", "", <<>>, "")

\* what one call of the wrapped function can do: return a response, raise
\* SlackApiError with an error code, or raise another Exception
Outcomes ==
  { CallOutcome("return", "", <<>>, v) : v \in {"response_a", "response_b"} }
  \cup { CallOutcome("SlackApiError", "ratelimited", h, "") :
           h \in RetryAfterHeaders }
  \cup { CallOutcome("SlackApiError", e, <<>>, "") :
           e \in {"internal_error", "service_unavailable", "timeout",
                  "invalid_auth", "channel_not_found"} }
  \cup { CallOutcome("Exception", "", <<>>, "") }

\* error == 'ratelimited'
is_ratelimited(error) == error = "ratelimited"

\* every Slack error code taken for a transient one
is_transient_any(error) == TRUE

\* error in ('internal_error', 'service_unavailable', 'timeout')
is_transient(error) ==
  error \in {"internal_error", "service_unavailable", "timeout"}

\* the Retry-After value taken as it comes, without the cap
ratelimit_delay_uncapped(retry_after) ==
  1000 * (IF retry_after = <<>> THEN BaseDelayMs \div 1000
          ELSE int(retry_after))

\* min(int(headers.get('Retry-After', base_delay)), max_delay)
ratelimit_delay(retry_after) ==
  Min(1000 * (IF retry_after = <<>> THEN BaseDelayMs \div 1000
              ELSE int(retry_after)),
      MaxDelayMs)

\* min(base_delay * (exponential_base ** attempt), max_delay)
backoff(n) == Min(BaseDelayMs * ExponentialBase ^ n, MaxDelayMs)

\* delay * (0.5 + random.random())
with_jitter(d, jitter) == (d * jitter) \div 1000

\* the last attempt compared with <= : one retry too many
retries_left_off_by_one(n) == n <= MaxRetries

\* if attempt < max_retries
retries_left(n) == n < MaxRetries

RetryInit ==
  /\ pc = "idle"
  /\ attempt = 0
  /\ outcomes = <<>>
  /\ delay = 0
  /\ slept = <<>>
  /\ result = ""
  /\ raised = NoException

\* wrapper(*args, **kwargs) is entered
wrapper ==
  /\ pc = "idle"
  /\ pc' = "call"
  /\ attempt' = 0
  /\ UNCHANGED <<outcomes, delay, slept, result, raised>>

\* a call of send_message_with_retry
Invoke ==
  /\ wrapper
  /\ UNCHANGED otherThanRetry

Return(value) ==
  /\ pc' = "returned"
  /\ result' = value
  /\ UNCHANGED <<delay, raised>>

Raise(exception) ==
  /\ pc' = "raised"
  /\ raised' = exception
  /\ UNCHANGED <<delay, result>>

SleepOrRaise(exception, d) ==
  IF retries_left(attempt)
    THEN /\ pc' = "sleep"
         /\ delay' = d
         /\ UNCHANGED <<result, raised>>
    ELSE Raise(exception)

\* one iteration of the loop up to its sleep: func(*args, **kwargs) and the
\* except clauses
Call(outcome, jitter) ==
  /\ pc = "call"
  /\ outcomes' = Append(outcomes, outcome)
  /\ IF outcome.kind = "return"
       THEN Return(outcome.value)
     ELSE IF outcome.kind = "SlackApiError"
       THEN IF is_ratelimited(outcome.error)
              THEN SleepOrRaise(outcome, ratelimit_delay(outcome.retry_after))
            ELSE IF is_transient(outcome.error)
              THEN SleepOrRaise(outcome, with_jitter(backoff(attempt), jitter))
            ELSE Raise(outcome)
     ELSE SleepOrRaise(outcome, with_jitter(backoff(attempt), jitter))
  /\ UNCHANGED <<attempt, slept>>
  /\ UNCHANGED otherThanRetry

\* time.sleep(delay), then the next iteration
Sleep ==
  /\ pc = "sleep"
  /\ slept' = Append(slept, delay)
  /\ delay' = 0
  /\ attempt' = attempt + 1
  /\ pc' = "call"
  /\ UNCHANGED <<outcomes, result, raised>>
  /\ UNCHANGED otherThanRetry

RetryNext ==
  \/ Invoke
  \/ \E outcome \in Outcomes, jitter \in Jitter : Call(outcome, jitter)
  \/ Sleep

(***************************************************************************)
(* FeedbackResponse properties and the header of the vibe-channel post      *)
(***************************************************************************)
MaxTextLen == 2

\* characters of a text: one that str.strip() removes and one it keeps
Chars == {" ", "x"}
Whitespace == {" "}

Texts == UNION { [1..n -> Chars] : n \in 0..MaxTextLen }

\* a nullable Text column
NullText == [null |-> TRUE, chars |-> <<>>]
Text(chars) == [null |-> FALSE, chars |-> chars]

\* a nullable Integer column holding a rating: 0 stands for None (Python
\* treats both as false)
Ratings == 0..5

RECURSIVE lstrip(_)
lstrip(chars) ==
  IF chars # <<>> /\ Head(chars) \in Whitespace THEN lstrip(Tail(chars))
  ELSE chars

RECURSIVE rstrip(_)
rstrip(chars) ==
  IF chars # <<>> /\ chars[Len(chars)] \in Whitespace
    THEN rstrip(SubSeq(chars, 1, Len(chars) - 1))
  ELSE chars

\* str.strip()
strip(chars) == rstrip(lstrip(chars))

\* bool(self.blockers and self.blockers.strip())
has_concerns(r) ==
  /\ ~r.blockers.null
  /\ r.blockers.chars # <<>>
  /\ strip(r.blockers.chars) # <<>>

is_positive(r) ==
  /\ r.feeling_rating # 0 /\ r.feeling_rating >= 4
  /\ r.satisfaction_rating # 0 /\ r.satisfaction_rating >= 4

\* needs_attention without its has_concerns term
needs_attention_ratings_only(r) ==
  \/ r.feeling_rating # 0 /\ r.feeling_rating <= 2
  \/ r.satisfaction_rating # 0 /\ r.satisfaction_rating <= 2

needs_attention(r) ==
  \/ r.feeling_rating # 0 /\ r.feeling_rating <= 2
  \/ r.satisfaction_rating # 0 /\ r.satisfaction_rating <= 2
  \/ has_concerns(r)

\* get_vibe_channel_feedback_blocks, "Determine alert level"; the markers
\* are the rotating-light and the check-mark emoji, each with a space
get_alert_emoji(r) ==
  IF needs_attention(r) THEN "rotating_light "
  ELSE IF is_positive(r) THEN "white_check_mark "
  ELSE ""

\* alert_emoji while nothing is posted
NoPost == "(no post)"

AlertInit ==
  /\ response = NoRow
  /\ alert_emoji = NoPost

\* FeedbackResponse(feeling_rating=..., satisfaction_rating=..., blockers=...)
NewFeedbackResponse(feeling_rating, satisfaction_rating, blockers) ==
  /\ response' = [exists |-> TRUE, feeling_rating |-> feeling_rating,
                  satisfaction_rating |-> satisfaction_rating,
                  blockers |-> blockers]
  /\ alert_emoji' = NoPost
  /\ UNCHANGED otherThanAlert

\* post_feedback_to_vibe_channel -> get_vibe_channel_feedback_blocks
PostFeedbackToVibeChannel ==
  /\ response.exists
  /\ alert_emoji = NoPost
  /\ alert_emoji' = get_alert_emoji(response)
  /\ UNCHANGED response
  /\ UNCHANGED otherThanAlert

AlertNext ==
  \/ \E f \in Ratings, s \in Ratings,
        blockers \in {NullText} \cup { Text(t) : t \in Texts } :
       NewFeedbackResponse(f, s, blockers)
  \/ PostFeedbackToVibeChannel

(***************************************************************************)
(* One run of a fired job function, statement by statement                  *)
(* (scheduler_service.send_standup_job / send_feedback_job and the dispatch *)
(* they call)                                                               *)
(***************************************************************************)
NoJob == [id |-> ""]

\* the statements of send_standup_dm / send_feedback_dm that can raise
DmStatements ==
  {"get_session", "client_query", "get_bot_token", "existing_query",
   "slack_call", "finally"}

\* the statements between try: and the except clauses of the dispatch
DmTryBody == {"client_query", "get_bot_token", "existing_query", "slack_call"}

\* what a statement can raise: the Slack call a SlackApiError or another
\* Exception, the others an Exception (of the database, of decrypt_token)
Raisable(statement) ==
  IF statement = "slack_call" THEN {"SlackApiError", "Exception"}
  ELSE {"Exception"}

\* a job function whose except clause names SlackApiError only
send_job_except_slack_only(exception) == exception = "SlackApiError"

\* send_standup_job / send_feedback_job: except Exception as e
send_job_except(exception) == exception \in {"SlackApiError", "Exception"}

JobKind(job) == IF job.func = "send_standup_job" THEN "standup" ELSE "feedback"

JobPrompt(job) == Prompt(JobKind(job), job.args[1], job.args[2], today)

JobInit ==
  /\ job_pc = "idle"
  /\ job_args = NoJob
  /\ job_exception = "none"
  /\ job_log = {}
  /\ job_result = "none"

\* the scheduler calls the function of a stored job with the job's args
JobFire(job) ==
  /\ scheduler
  /\ job_pc = "idle"
  /\ job \in BagToSet(jobs)
  /\ BagCardinality(sent) < MaxPrompts
  /\ job_pc' = "get_session"
  /\ job_args' = job
  /\ job_exception' = "none"
  /\ job_log' = {}
  /\ job_result' = "running"
  /\ UNCHANGED appVars
  /\ UNCHANGED otherThanJob

\* the statement after one that did not raise; the dispatch returns early
\* through its finally clause
NextStatement(statement, job) ==
  IF statement = "get_session" THEN "client_query"
  ELSE IF statement = "client_query"
    THEN IF clients[job.args[2]].exists /\ clients[job.args[2]].is_active
           THEN "get_bot_token" ELSE "finally"
  ELSE IF statement = "get_bot_token"
    THEN IF get_bot_token(job.args[1]) THEN "existing_query" ELSE "finally"
  ELSE IF statement = "existing_query"
    THEN IF JobKind(job) = "standup"
           THEN IF ExistingStandup(job.args[2], today) THEN "finally"
                ELSE "slack_call"
           ELSE IF ExistingFeedback(job.args[2], today) THEN "finally"
                ELSE "slack_call"
  ELSE IF statement = "slack_call" THEN "finally"
  ELSE "idle"

\* the job function returns
JobReturns ==
  /\ job_pc' = "idle"
  /\ job_result' = "returned"

\* an exception leaves the dispatch and reaches the job function's except
\* clause, which logs it; an exception the clause does not name leaves the
\* job function
JobExcept(exception) ==
  IF send_job_except(exception)
    THEN /\ job_log' = job_log \cup {job_args.func}
         /\ JobReturns
    ELSE /\ job_log' = job_log
         /\ job_pc' = "idle"
         /\ job_result' = "raised"

\* one statement of the run; exception = "none": it does not raise
JobStep(exception) ==
  /\ job_pc \in DmStatements
  /\ exception \in Raisable(job_pc) \cup {"none"}
  /\ job_exception' = IF exception = "none" THEN job_exception ELSE exception
  /\ IF exception = "none"
       THEN /\ job_log' = job_log
            /\ IF NextStatement(job_pc, job_args) = "idle"
                 THEN JobReturns
                 ELSE /\ job_pc' = NextStatement(job_pc, job_args)
                      /\ job_result' = job_result
     ELSE IF job_pc \in DmTryBody
       \* except SlackApiError / except Exception of the dispatch: logged
       THEN /\ job_log' = job_log \cup {"dispatch"}
            /\ job_pc' = "finally"
            /\ job_result' = job_result
     \* get_session() before the try and session.close() in the finally
     ELSE JobExcept(exception)
  /\ sent' = IF job_pc = "slack_call" /\ exception = "none"
               THEN sent (+) SetToBag({JobPrompt(job_args)})
               ELSE sent
  /\ UNCHANGED <<db_sqlite, scheduler, workspaces, clients, client_seq,
                 standup_configs, feedback_configs, standup_responses,
                 feedback_responses, jobs, today, inflight, faults, job_args>>
  /\ UNCHANGED otherThanJob

JobNext ==
  \/ \E team \in Teams, setup_ok \in BOOLEAN : Startup(team, setup_ok)
  \/ \E team \in Teams, inp \in AddClientInputs, commit_ok \in BOOLEAN :
       AddClient(team, inp, commit_ok)
  \/ \E c \in ClientIds, commit_ok \in BOOLEAN : RemoveClient(c, commit_ok)
  \/ \E prompt \in BagToSet(sent), commit_ok \in BOOLEAN :
       SubmitStandup(prompt, commit_ok)
  \/ \E job \in BagToSet(jobs) : JobFire(job)
  \/ \E exception \in {"none", "SlackApiError", "Exception"} :
       JobStep(exception)

(***************************************************************************)
(* db_transaction (database/session.py): one block at a time                *)
(***************************************************************************)
MaxTxRows == 3

\* rows a block can add to or delete from the database
TxRows == 1..MaxTxRows

\* an except clause that rolls back and does not raise
db_transaction_swallow(exception) == "none"

\* except Exception as e: session.rollback(); ...; raise
db_transaction_reraise(exception) == exception

TxInit ==
  /\ tx_pc = "idle"
  /\ db_rows = {}
  /\ session_rows = {}
  /\ session_open = FALSE
  /\ tx_before = {}
  /\ tx_exception = "none"
  /\ tx_result = "none"

\* with db_transaction() as session: session = get_session(); try: yield
TxEnter ==
  /\ tx_pc = "idle"
  /\ tx_pc' = "block"
  /\ session_open' = TRUE
  /\ session_rows' = db_rows
  /\ tx_before' = db_rows
  /\ tx_exception' = "none"
  /\ tx_result' = "running"
  /\ UNCHANGED db_rows
  /\ UNCHANGED otherThanTx

\* a statement of the block: session.add(row) or session.delete(row), with
\* or without session.flush(); the change is not committed
TxChange(row, add) ==
  /\ tx_pc = "block"
  /\ session_rows' = IF add THEN session_rows \cup {row}
                     ELSE session_rows \ {row}
  /\ UNCHANGED <<tx_pc, db_rows, session_open, tx_before, tx_exception,
                 tx_result>>
  /\ UNCHANGED otherThanTx

\* the block ends (also by return): raises = TRUE when a statement of the
\* block raises, otherwise session.commit() is next
TxLeaveBlock(raises) ==
  /\ tx_pc = "block"
  /\ tx_pc' = IF raises THEN "except" ELSE "commit"
  /\ tx_exception' = IF raises THEN "block" ELSE "none"
  /\ UNCHANGED <<db_rows, session_rows, session_open, tx_before, tx_result>>
  /\ UNCHANGED otherThanTx

\* session.commit(): the changes of the block become the database state
\* together, or the commit raises and none does
TxCommit(commit_ok) ==
  /\ tx_pc = "commit"
  /\ db_rows' = IF commit_ok THEN session_rows ELSE db_rows
  /\ tx_pc' = IF commit_ok THEN "finally" ELSE "except"
  /\ tx_exception' = IF commit_ok THEN "none" ELSE "commit"
  /\ UNCHANGED <<session_rows, session_open, tx_before, tx_result>>
  /\ UNCHANGED otherThanTx

\* except Exception as e: session.rollback(); logger.error(...); raise
TxExcept ==
  /\ tx_pc = "except"
  /\ session_rows' = db_rows
  /\ tx_result' = db_transaction_reraise(tx_exception)
  /\ tx_pc' = "finally"
  /\ UNCHANGED <<db_rows, session_open, tx_before, tx_exception>>
  /\ UNCHANGED otherThanTx

\* finally: session.close(); then the exception in flight, if any, reaches
\* the caller
TxFinally ==
  /\ tx_pc = "finally"
  /\ session_open' = FALSE
  /\ tx_result' = IF tx_result \in {"running", "none"} THEN "returned"
                  ELSE tx_result
  /\ tx_pc' = "idle"
  /\ UNCHANGED <<db_rows, session_rows, tx_before, tx_exception>>
  /\ UNCHANGED otherThanTx

TxNext ==
  \/ TxEnter
  \/ \E row \in TxRows, add \in BOOLEAN : TxChange(row, add)
  \/ \E raises \in BOOLEAN : TxLeaveBlock(raises)
  \/ \E commit_ok \in BOOLEAN : TxCommit(commit_ok)
  \/ TxExcept
  \/ TxFinally

(***************************************************************************)
(* Form extraction of the submission handlers (handlers/actions.py) and     *)
(* the response time of the save services                                   *)
(***************************************************************************)
\* a text input of the payload's state: its block, its action or the
\* "value" key of the action is absent, the value is null, or it is a text
TextInputs ==
  { [at |-> a, value |-> <<>>] : a \in {"no_block", "no_action", "no_value",
                                         "null"} }
  \cup { [at |-> "value", value |-> <<"x">>] }

\* a rating select: block, action or "selected_option" absent, the option
\* null, the option without "value", or a value: a digit or other text
RatingSelects ==
  { [at |-> a, value |-> <<>>] :
      a \in {"no_block", "no_action", "no_option", "null", "no_value"} }
  \cup { [at |-> "value", value |-> v] : v \in {<<"1">>, <<"5">>, <<"x">>} }

\* body["message"]["ts"]: a Slack timestamp, a string float() rejects
\* (ValueError), null (TypeError), a string float() reads as infinity
\* (utcfromtimestamp raises OverflowError), or no "message" in the body
\* (KeyError in the handler)
MessageTimestamps == {"valid", "unparseable", "null", "infinite", "absent"}

\* seconds between the prompt and the submission, for a valid timestamp
ElapsedSeconds == 42

DecimalDigits == {"0", "1", "2", "3", "4", "5", "6", "7", "8", "9"}

DigitValue(ch) ==
  CASE ch = "0" -> 0 [] ch = "1" -> 1 [] ch = "2" -> 2 [] ch = "3" -> 3
    [] ch = "4" -> 4 [] ch = "5" -> 5 [] ch = "6" -> 6 [] ch = "7" -> 7
    [] ch = "8" -> 8 [] ch = "9" -> 9

\* int(<str>) for a string of decimal digits
int_str(chars) == int([i \in 1..Len(chars) |-> DigitValue(chars[i])])

\* .get("value", "") without its default
get_value_no_default(input) ==
  IF input.at = "value" THEN Text(input.value) ELSE NullText

\* state_values.get(block_id, {}).get(action_id, {}).get("value", "")
get_value(input) ==
  IF input.at \in {"no_block", "no_action", "no_value"} THEN Text(<<>>)
  ELSE IF input.at = "null" THEN NullText
  ELSE Text(input.value)

\* int(selected.get("value", "3")) if selected else 3; raised: int() raised
\* ValueError
get_rating(select) ==
  IF select.at \in {"no_block", "no_action", "no_option", "null"}
    THEN [raised |-> FALSE, rating |-> 3]
  ELSE IF select.at = "no_value"
    THEN [raised |-> FALSE, rating |-> int_str(<<"3">>)]
  ELSE IF \A i \in 1..Len(select.value) : select.value[i] \in DecimalDigits
    THEN [raised |-> FALSE, rating |-> int_str(select.value)]
  ELSE [raised |-> TRUE, rating |-> 0]

\* save_*_response: response_time from message_ts; except (ValueError,
\* TypeError): response_time = 0
response_time(message_ts) ==
  IF message_ts = "valid" THEN [raised |-> FALSE, seconds |-> ElapsedSeconds]
  ELSE IF message_ts \in {"unparseable", "null"}
    THEN [raised |-> FALSE, seconds |-> 0]
  ELSE [raised |-> TRUE, seconds |-> 0]

NoForm == [kind |-> "none"]

FormInit ==
  /\ form = NoForm
  /\ form_saved = NoRow

\* handle_standup_submission for a well-formed button value, a team that
\* has its workspace row and a commit that succeeds: the row saved, or
\* NoRow when the handler's except clause logged an error
StandupFormRow(payload) ==
  IF payload.message_ts = "absent" \/ response_time(payload.message_ts).raised
    THEN NoRow
  ELSE [exists |-> TRUE,
        accomplishments |-> get_value(payload.accomplishments),
        working_on |-> get_value(payload.working_on),
        blockers |-> get_value(payload.blockers),
        response_time_seconds |-> response_time(payload.message_ts).seconds]

\* handle_feedback_submission, likewise
FeedbackFormRow(payload) ==
  IF \/ get_rating(payload.feeling_rating).raised
     \/ get_rating(payload.satisfaction_rating).raised
     \/ payload.message_ts = "absent"
     \/ response_time(payload.message_ts).raised
    THEN NoRow
  ELSE [exists |-> TRUE,
        feeling_rating |-> get_rating(payload.feeling_rating).rating,
        satisfaction_rating |-> get_rating(payload.satisfaction_rating).rating,
        feeling_text |-> get_value(payload.feeling_text),
        improvements |-> get_value(payload.improvements),
        blockers |-> get_value(payload.blockers),
        response_time_seconds |-> response_time(payload.message_ts).seconds]

StandupFormSubmission(accomplishments, working_on, blockers, message_ts) ==
  LET payload == [kind |-> "standup", accomplishments |-> accomplishments,
                  working_on |-> working_on, blockers |-> blockers,
                  message_ts |-> message_ts]
  IN /\ form' = payload
     /\ form_saved' = StandupFormRow(payload)
     /\ UNCHANGED otherThanForm

FeedbackFormSubmission(feeling, satisfaction, text, improvements, blockers, message_ts) ==
  LET payload == [kind |-> "feedback", feeling_rating |-> feeling,
                  satisfaction_rating |-> satisfaction,
                  feeling_text |-> text, improvements |-> improvements,
                  blockers |-> blockers, message_ts |-> message_ts]
  IN /\ form' = payload
     /\ form_saved' = FeedbackFormRow(payload)
     /\ UNCHANGED otherThanForm

\* one submission is followed from the payload to the saved row
FormNext ==
  \/ /\ form = NoForm
     /\ \E a \in TextInputs, w \in TextInputs, b \in TextInputs,
           ts \in MessageTimestamps : StandupFormSubmission(a, w, b, ts)
  \/ /\ form = NoForm
     /\ \E f \in RatingSelects, s \in RatingSelects, t \in TextInputs,
           i \in TextInputs, b \in TextInputs, ts \in MessageTimestamps :
          FeedbackFormSubmission(f, s, t, i, b, ts)

(***************************************************************************)
(* Requests to the admin and API endpoints                                  *)
(***************************************************************************)
NoRequest == [endpoint |-> ""]

AdminInit ==
  /\ admin_request = NoRequest
  /\ admin_response = AdminResponse(0, FALSE)

\* a GET request to an endpoint behind require_admin_auth
AdminRequest(endpoint, env_key, header_key, query_key) ==
  /\ admin_request' = [endpoint |-> endpoint, env_key |-> env_key,
                       header_key |-> header_key, query_key |-> query_key]
  /\ admin_response' = require_admin_auth(env_key, header_key, query_key)
  /\ UNCHANGED otherThanAdmin

\* one request is followed to its response
AdminNext ==
  /\ admin_request = NoRequest
  /\ \E endpoint \in AdminEndpoints, env_key \in AdminKeys,
        header_key \in AdminKeys, query_key \in AdminKeys :
       AdminRequest(endpoint, env_key, header_key, query_key)

(***************************************************************************)
(* The workspaces table (workspace_service.py, models/workspace.py)         *)
(***************************************************************************)
\* ids the workspaces table hands out
MaxWorkspaces == 2

TeamIds == {"T1", "T2"}

TeamNames == {"Acme", "Acme Inc"}

BotTokens == {"xoxb-1", "xoxb-2"}

UserIds == {"U1", "U2"}

\* utils/encryption.py: the Fernet token of a plain token, and the plain
\* token of a Fernet token
encrypt_token(token) == <<"fernet", token>>

decrypt_token(encrypted_token) == encrypted_token[2]

\* Workspace.admin_user_ids (setter): an empty list is stored as NULL, which
\* the getter reads as the empty list; <<>> is the NULL of the column
admin_user_ids_setter(value) == IF value = <<>> THEN <<>> ELSE value

admin_user_ids(workspace) == workspace.admin_user_ids

\* Workspace.is_admin(user_id)
is_admin(workspace, user_id) ==
  \E i \in DOMAIN admin_user_ids(workspace) :
     admin_user_ids(workspace)[i] = user_id

\* session.query(Workspace).filter_by(team_id=team_id): the rows of the team
WorkspacesOfTeam(rows, team_id) == { w \in rows : w.team_id = team_id }

NoCall == [team_id |-> ""]

WorkspaceInit ==
  /\ workspace_rows = {}
  /\ workspace_seq = 0
  /\ workspace_clients = {}
  /\ create_call = NoCall

\* the row of an existing workspace after a reinstall keeps only the
\* installer as admin
create_workspace_reset_admins(existing, installer_user_id) ==
  admin_user_ids_setter(<<installer_user_id>>)

\* create_workspace, existing row: the installer is appended to the admins
\* unless already listed
create_workspace_admins(existing, installer_user_id) ==
  IF ~is_admin(existing, installer_user_id)
    THEN admin_user_ids_setter(Append(admin_user_ids(existing),
                                      installer_user_id))
    ELSE existing.admin_user_ids

\* create_workspace(team_id, team_name, bot_token, bot_user_id, scope,
\* installer_user_id) in one db_transaction; commit_ok = FALSE: the commit
\* raises, the transaction is rolled back and the exception reaches the caller
create_workspace(team_id, team_name, bot_token, installer_user_id, commit_ok) ==
  LET found == WorkspacesOfTeam(workspace_rows, team_id)
      existing == CHOOSE w \in found : TRUE
      updated == [existing EXCEPT
                    !.team_name = team_name,
                    !.bot_token = encrypt_token(bot_token),
                    !.bot_user_id = "B" \o team_id,
                    !.scope = "chat:write",
                    !.is_active = TRUE,
                    !.admin_user_ids =
                       create_workspace_admins(existing, installer_user_id)]
      workspace == [id |-> workspace_seq + 1, team_id |-> team_id,
                    team_name |-> team_name,
                    bot_token |-> encrypt_token(bot_token),
                    bot_user_id |-> "B" \o team_id, scope |-> "chat:write",
                    is_active |-> TRUE, vibe_check_channel_id |-> "",
                    admin_user_ids |->
                       admin_user_ids_setter(<<installer_user_id>>)]
  IN /\ create_call' = [team_id |-> team_id, team_name |-> team_name,
                        bot_token |-> bot_token,
                        installer_user_id |-> installer_user_id,
                        raised |-> ~commit_ok]
     /\ IF ~commit_ok
          THEN UNCHANGED <<workspace_rows, workspace_seq>>
          ELSE IF found # {}
            THEN /\ workspace_rows' = (workspace_rows \ {existing})
                                        \cup {updated}
                 /\ UNCHANGED workspace_seq
            ELSE /\ workspace_rows' = workspace_rows \cup {workspace}
                 /\ workspace_seq' = workspace_seq + 1
     /\ UNCHANGED workspace_clients
     /\ UNCHANGED otherThanWorkspace

\* add_admin(workspace_id, user_id)
add_admin(workspace_id, user_id) ==
  /\ \E workspace \in workspace_rows :
       /\ workspace.id = workspace_id
       /\ ~is_admin(workspace, user_id)
       /\ workspace_rows' = (workspace_rows \ {workspace}) \cup
            {[workspace EXCEPT !.admin_user_ids =
                admin_user_ids_setter(Append(admin_user_ids(workspace),
                                             user_id))]}
  /\ UNCHANGED <<workspace_seq, workspace_clients, create_call>>
  /\ UNCHANGED otherThanWorkspace

\* client_service.add_client: a clients row of the workspace (the table has
\* UniqueConstraint('workspace_id', 'slack_user_id'))
WorkspaceAddClient(workspace_id, slack_user_id) ==
  /\ \E workspace \in workspace_rows : workspace.id = workspace_id
  /\ <<workspace_id, slack_user_id>> \notin workspace_clients
  /\ workspace_clients' = workspace_clients \cup
                            {<<workspace_id, slack_user_id>>}
  /\ UNCHANGED <<workspace_rows, workspace_seq, create_call>>
  /\ UNCHANGED otherThanWorkspace

WorkspaceNext ==
  \/ \E team_id \in TeamIds, team_name \in TeamNames, bot_token \in BotTokens,
        installer_user_id \in UserIds, commit_ok \in BOOLEAN :
       create_workspace(team_id, team_name, bot_token, installer_user_id,
                        commit_ok)
  \/ \E workspace_id \in 1..MaxWorkspaces, user_id \in UserIds :
       add_admin(workspace_id, user_id)
  \/ \E workspace_id \in 1..MaxWorkspaces :
       WorkspaceAddClient(workspace_id, "U1")

(***************************************************************************)
(* Modal submissions and who makes them (handlers/views.py)                 *)
(***************************************************************************)
\* body["user"]["id"] of a submission: the people of the Slack workspace
SlackUsers == {"U1", "U2"}

\* app.py: auth_response["user_id"] of the bot token
BotUserId == "UBOT"

\* app.py creates the workspace row with installer_user_id = bot_user_id;
\* add_admin is called nowhere
WorkspaceAdmins == [admin_user_ids |-> admin_user_ids_setter(<<BotUserId>>)]

\* is_workspace_admin(workspace_id, user_id), for the workspace of the team
is_workspace_admin(user_id) == is_admin(WorkspaceAdmins, user_id)

\* views named by callback_id
ViewCallbacks ==
  {"add_client_modal", "pause_client_modal", "resume_client_modal",
   "remove_client_modal", "set_channel_modal"}

ViewChannels == {"C1", "C2"}

NoSubmission == [callback_id |-> "", user_id |-> ""]

ViewInit ==
  /\ view_submission = NoSubmission
  /\ vibe_check_channel_id = ""

\* the submission a handler of views.register receives
ViewReceived(callback_id, user_id) ==
  view_submission' = [callback_id |-> callback_id, user_id |-> user_id]

\* a submission of one of the four client modals by a user
ViewClientSubmission(callback_id, user_id, team, inp, client_id, commit_ok) ==
  /\ ViewReceived(callback_id, user_id)
  /\ CASE callback_id = "add_client_modal" ->
            handle_add_client_submission(team, inp, commit_ok)
       [] callback_id = "pause_client_modal" ->
            handle_pause_client_submission(client_id, commit_ok)
       [] callback_id = "resume_client_modal" ->
            handle_resume_client_submission(client_id, commit_ok)
       [] callback_id = "remove_client_modal" ->
            handle_remove_client_submission(client_id, commit_ok)
  /\ UNCHANGED vibe_check_channel_id
  /\ UNCHANGED otherThanView

\* handle_set_channel_submission -> set_vibe_check_channel, for a team that
\* has a workspace row (without one the handler logs the error)
handle_set_channel_submission(user_id, team, channel_id) ==
  /\ scheduler
  /\ get_workspace_by_team_id(team) # 0
  /\ ViewReceived("set_channel_modal", user_id)
  /\ vibe_check_channel_id' = channel_id
  /\ UNCHANGED appVars
  /\ UNCHANGED otherThanView

ViewsNext ==
  \/ \E team \in Teams, setup_ok \in BOOLEAN : Startup(team, setup_ok)
  \/ \E callback_id \in ViewCallbacks \ {"set_channel_modal"},
        user_id \in SlackUsers, team \in Teams, inp \in AddClientInputs,
        client_id \in ClientIds, commit_ok \in BOOLEAN :
       ViewClientSubmission(callback_id, user_id, team, inp, client_id,
                            commit_ok)
  \/ \E user_id \in SlackUsers, team \in Teams, channel_id \in ViewChannels :
       handle_set_channel_submission(user_id, team, channel_id)

(***************************************************************************)
(* Test prompts and the submit buttons (handlers/commands.py, actions.py)   *)
(***************************************************************************)
\* the sentinel client_id of the prompts of /vibe-test and
\* /vibe-test-feedback
TestClientId == -1

PromptKinds == {"standup", "feedback"}

\* what one run of a submission handler meets: nothing, a rating int()
\* cannot read, a commit that raises, a chat_update that raises
SubmissionOutcomes == {"ok", "rating", "commit", "chat_update"}

TestInit ==
  /\ confirmed = {}
  /\ vibe_posts = EmptyBag

\* no branch of the handler is taken for the sentinel
is_test_submission_never(client_id) == FALSE

\* handle_*_submission: if client_id == -1
is_test_submission(client_id) == client_id = TestClientId

\* handle_test / handle_test_feedback: the prompt of get_*_message_blocks(-1,
\* date.today()) is posted to the DM of the user of the command
handle_test(kind, slack_ok) ==
  /\ scheduler
  /\ Environment(slack_ok)
  /\ sent' = IF slack_ok
               THEN sent (+) SetToBag({Prompt(kind, 0, TestClientId, today)})
               ELSE sent
  /\ BagCardinality(inflight) + BagCardinality(sent') <= MaxPrompts
  /\ UNCHANGED <<db_sqlite, scheduler, workspaces, clients, client_seq,
                 standup_configs, feedback_configs, standup_responses,
                 feedback_responses, jobs, today, inflight>>
  /\ UNCHANGED otherThanApp

\* post_feedback_to_vibe_channel: posts when the workspace has a channel
post_feedback_to_vibe_channel(posts, client_id, week_ending) ==
  IF vibe_check_channel_id = "" THEN posts
  ELSE posts (+) SetToBag({[client_id |-> client_id,
                            week_ending |-> week_ending]})

\* handle_standup_submission / handle_feedback_submission for the button of
\* a delivered prompt, pressed in a team
handle_submission(prompt, team, outcome) ==
  LET workspace_id == get_workspace_by_team_id(team)
      commit_ok == outcome # "commit"
      parsed == ~(prompt.kind = "feedback" /\ outcome = "rating")
      test == is_test_submission(prompt.client_id)
      save == parsed /\ ~test /\ workspace_id # 0
      standups == IF save /\ prompt.kind = "standup"
                    THEN save_standup_response(standup_responses,
                           prompt.client_id, workspace_id, prompt.date,
                           commit_ok)
                    ELSE standup_responses
      feedbacks == IF save /\ prompt.kind = "feedback"
                     THEN save_feedback_response(feedback_responses,
                            prompt.client_id, workspace_id, prompt.date,
                            commit_ok)
                     ELSE feedback_responses
      saved == standups # standup_responses \/ feedbacks # feedback_responses
  IN /\ scheduler
     /\ prompt \in BagToSet(sent)
     /\ Environment(outcome = "ok")
     /\ standup_responses' = standups
     /\ feedback_responses' = feedbacks
     /\ BagCardinality(standups) + BagCardinality(feedbacks) <= MaxResponses
     /\ vibe_posts' = IF feedbacks # feedback_responses
                        THEN post_feedback_to_vibe_channel(vibe_posts,
                               prompt.client_id, prompt.date)
                        ELSE vibe_posts
     /\ confirmed' = IF parsed /\ (test \/ saved) /\ outcome # "chat_update"
                       THEN confirmed \cup {prompt}
                       ELSE confirmed
     /\ UNCHANGED <<db_sqlite, scheduler, workspaces, clients, client_seq,
                    standup_configs, feedback_configs, jobs, today, inflight,
                    sent>>
     /\ UNCHANGED otherThanTest

TestNext ==
  \/ \E team \in Teams, setup_ok \in BOOLEAN : Startup(team, setup_ok)
  \/ \E team \in Teams, inp \in AddClientInputs, commit_ok \in BOOLEAN :
       AddClient(team, inp, commit_ok)
  \/ \E user_id \in SlackUsers, team \in Teams, channel_id \in ViewChannels :
       handle_set_channel_submission(user_id, team, channel_id)
  \/ \E job \in BagToSet(jobs) : FireJob(job)
  \/ \E prompt \in BagToSet(inflight), slack_ok \in BOOLEAN :
       PostPrompt(prompt, slack_ok)
  \/ \E kind \in PromptKinds, slack_ok \in BOOLEAN : handle_test(kind, slack_ok)
  \/ \E prompt \in BagToSet(sent), team \in Teams,
        outcome \in SubmissionOutcomes :
       handle_submission(prompt, team, outcome)

(***************************************************************************)
(* The Slack call of a prompt dispatch (standup_service, feedback_service)  *)
(***************************************************************************)
DmInit == dm_kind = "none"

\* send_standup_dm, past its checks: send_message_with_retry(slack_client,
\* channel, text, blocks)
StandupDmSend ==
  /\ dm_kind = "none"
  /\ dm_kind' = "standup"
  /\ wrapper
  /\ UNCHANGED otherThanDm

\* send_feedback_dm, past its checks: slack_client.chat_postMessage(channel,
\* text, blocks), whose exception the function logs
FeedbackDmSend(outcome) ==
  /\ dm_kind = "none"
  /\ dm_kind' = "feedback"
  /\ pc = "idle"
  /\ outcomes' = Append(outcomes, outcome)
  /\ IF outcome.kind = "return" THEN Return(outcome.value)
     ELSE Raise(outcome)
  /\ UNCHANGED <<attempt, slept>>
  /\ UNCHANGED otherThanDm

DispatchNext ==
  \/ StandupDmSend
  \/ \E outcome \in Outcomes : FeedbackDmSend(outcome)
  \/ \E outcome \in Outcomes, jitter \in Jitter :
       dm_kind # "none" /\ Call(outcome, jitter)
  \/ dm_kind # "none" /\ Sleep

(***************************************************************************)
(* save_feedback_response, step by step (services/feedback_service.py)     *)
(***************************************************************************)
\* number of rows the calls may commit
MaxSaves == 2

NoSave == [client_id |-> 0, week_ending |-> 0]

SaveInit ==
  /\ save_pc = "idle"
  /\ save_args = NoSave
  /\ response_id = 0
  /\ fb_table = <<>>
  /\ channel_messages = <<>>
  /\ vibe_channel = ""

\* the handler calls save_feedback_response(client_id, workspace_id,
\* week_ending, ...): the call enters its db_transaction block
SaveCall(client_id, week_ending) ==
  /\ save_pc \in {"idle", "returned", "raised"}
  /\ Len(fb_table) < MaxSaves
  /\ save_pc' = "block"
  /\ save_args' = [client_id |-> client_id, week_ending |-> week_ending]
  /\ response_id' = 0
  /\ UNCHANGED <<fb_table, channel_messages, vibe_channel>>
  /\ UNCHANGED otherThanSave

\* session.add, session.flush and the commit at the end of the block; when
\* one of them raises, db_transaction rolls back and raises to the caller
SaveCommit(commit_ok) ==
  /\ save_pc = "block"
  /\ IF commit_ok
       THEN /\ fb_table' = Append(fb_table,
                   [client_id |-> save_args.client_id,
                    week_ending |-> save_args.week_ending,
                    vibe_channel_message_ts |-> ""])
            /\ response_id' = Len(fb_table) + 1
            /\ save_pc' = "committed"
       ELSE /\ save_pc' = "raised"
            /\ UNCHANGED <<fb_table, response_id>>
  /\ UNCHANGED <<save_args, channel_messages, vibe_channel>>
  /\ UNCHANGED otherThanSave

\* how post_feedback_to_vibe_channel ends before its update of the row:
\* post_result is what building the blocks and chat_postMessage do
PostOutcome(channel, bot_token, post_result) ==
  IF channel = "" THEN "no_channel"
  ELSE IF ~bot_token THEN "no_token"
  ELSE IF post_result = "ok" THEN "posted"
  ELSE post_result

PostResults == {"ok", "SlackApiError", "Exception"}

\* the except clauses re-raising
after_failed_post_raise == "raised"

\* where save_feedback_response is after a post that was not made: the
\* early returns and both except clauses only log
after_failed_post == "returned"

\* post_feedback_to_vibe_channel up to chat_postMessage
PostToVibeChannel(bot_token, post_result) ==
  /\ save_pc = "committed"
  /\ IF PostOutcome(vibe_channel, bot_token, post_result) = "posted"
       THEN /\ channel_messages' = Append(channel_messages, response_id)
            /\ save_pc' = "posted"
       ELSE /\ save_pc' = after_failed_post
            /\ UNCHANGED channel_messages
  /\ UNCHANGED <<save_args, response_id, fb_table, vibe_channel>>
  /\ UNCHANGED otherThanSave

\* the second db_transaction of post_feedback_to_vibe_channel: sets
\* vibe_channel_message_ts of the row; when its commit raises the update is
\* rolled back and the exception is logged
SetMessageTs(commit_ok) ==
  /\ save_pc = "posted"
  /\ fb_table' = IF commit_ok /\ response_id \in DOMAIN fb_table
                  THEN [fb_table EXCEPT
                          ![response_id].vibe_channel_message_ts = "ts"]
                  ELSE fb_table
  /\ save_pc' = "returned"
  /\ UNCHANGED <<save_args, response_id, channel_messages, vibe_channel>>
  /\ UNCHANGED otherThanSave

\* set_vibe_check_channel: an admin sets the channel of the workspace
SetVibeChannel(channel) ==
  /\ channel # vibe_channel
  /\ vibe_channel' = channel
  /\ UNCHANGED <<save_pc, save_args, response_id, fb_table, channel_messages>>
  /\ UNCHANGED otherThanSave

SaveNext ==
  \/ \E client_id \in ClientIds, week_ending \in Days :
       SaveCall(client_id, week_ending)
  \/ \E commit_ok \in BOOLEAN : SaveCommit(commit_ok)
  \/ \E bot_token \in BOOLEAN, post_result \in PostResults :
       PostToVibeChannel(bot_token, post_result)
  \/ \E commit_ok \in BOOLEAN : SetMessageTs(commit_ok)
  \/ \E channel \in {"", "C1"} : SetVibeChannel(channel)

(***************************************************************************)
(* Several workspaces on one database (app.py, handlers/views.py)           *)
(***************************************************************************)
NoModal == [callback_id |-> "", team |-> "", client_id |-> 0]

TenantInit ==
  /\ bot_team = ""
  /\ modal = NoModal

\* init_full_app of a process configured with the bot token of a team
TenantStartup(team, setup_ok) ==
  /\ init_full_app(team, setup_ok)
  /\ bot_team' = team
  /\ UNCHANGED modal
  /\ UNCHANGED otherThanTenant

\* the process stops
TenantShutdown ==
  /\ ProcessStops
  /\ bot_team' = ""
  /\ UNCHANGED modal
  /\ UNCHANGED otherThanTenant

\* the view submission of a client modal that Slack delivers to the
\* process: body["team"]["id"] is the team of the bot token, client_id the
\* selected_option value of the payload (add_client_modal carries none)
TenantSubmission(callback_id, inp, client_id, commit_ok) ==
  /\ bot_team # ""
  /\ callback_id = "add_client_modal" => client_id = 0
  /\ callback_id # "add_client_modal" => client_id \in ClientIds
  /\ modal' = [callback_id |-> callback_id, team |-> bot_team,
               client_id |-> client_id]
  /\ CASE callback_id = "add_client_modal" ->
            handle_add_client_submission(bot_team, inp, commit_ok)
       [] callback_id = "pause_client_modal" ->
            handle_pause_client_submission(client_id, commit_ok)
       [] callback_id = "resume_client_modal" ->
            handle_resume_client_submission(client_id, commit_ok)
       [] callback_id = "remove_client_modal" ->
            handle_remove_client_submission(client_id, commit_ok)
  /\ UNCHANGED bot_team
  /\ UNCHANGED otherThanTenant

TenantNext ==
  \/ \E team \in InstalledTeams, setup_ok \in BOOLEAN :
       TenantStartup(team, setup_ok)
  \/ TenantShutdown
  \/ \E callback_id \in ViewCallbacks \ {"set_channel_modal"},
        inp \in AddClientInputs, client_id \in ClientIds \cup {0},
        commit_ok \in BOOLEAN :
       TenantSubmission(callback_id, inp, client_id, commit_ok)

(***************************************************************************)
(* Specifications                                                           *)
(***************************************************************************)
vars == <<appVars, retryVars, alertVars, jobVars, txVars, formVars, adminVars,
          workspaceVars, viewVars, testVars, dmVars, saveVars, tenantVars>>

Init == AppInit /\ RetryInit /\ AlertInit /\ JobInit /\ TxInit /\ FormInit
        /\ AdminInit /\ WorkspaceInit /\ ViewInit /\ TestInit
        /\ DmInit /\ SaveInit /\ TenantInit

Next == AppNext

Spec == Init /\ [][Next]_vars

\* The wrapped call returns or raises (the Slack client has a timeout) and a
\* sleep of a finite delay ends.
SpecRetry ==
  /\ Init
  /\ [][RetryNext]_vars
  /\ WF_vars(\E outcome \in Outcomes, jitter \in Jitter : Call(outcome, jitter))
  /\ WF_vars(Sleep)

SpecFeedback == Init /\ [][AlertNext]_vars

SpecJob == Init /\ [][JobNext]_vars

SpecTx == Init /\ [][TxNext]_vars

SpecForm == Init /\ [][FormNext]_vars

SpecAdmin == Init /\ [][AdminNext]_vars

SpecWorkspace == Init /\ [][WorkspaceNext]_vars

SpecViews == Init /\ [][ViewsNext]_vars

SpecTest == Init /\ [][TestNext]_vars

SpecDispatch == Init /\ [][DispatchNext]_vars

SpecSave == Init /\ [][SaveNext]_vars

SpecTenants == Init /\ [][TenantNext]_vars

(***************************************************************************)
(* Properties                                                               *)
(***************************************************************************)
\* number of standup_responses rows of a client and scheduled date
StandupRowsOf(c, d) ==
  LET rows == { r \in BagToSet(standup_responses) :
                  r.client_id = c /\ r.scheduled_date = d }
  IN BagCardinality([r \in rows |-> standup_responses[r]])

\* number of feedback_responses rows of a client and week
FeedbackRowsOf(c, d) ==
  LET rows == { r \in BagToSet(feedback_responses) :
                  r.client_id = c /\ r.week_ending = d }
  IN BagCardinality([r \in rows |-> feedback_responses[r]])

\* a response of the prompt type is recorded for the client and the period
ResponseRecorded(kind, c, d) ==
  IF kind = "standup" THEN StandupRowsOf(c, d) > 0
  ELSE FeedbackRowsOf(c, d) > 0

\* the jobs of a client in a job store
JobsOf(store, c) == { j \in BagToSet(store) : j.args[2] = c }

StandupJobsOf(store, c) ==
  { j \in JobsOf(store, c) : j.func = "send_standup_job" }

FeedbackJobsOf(store, c) ==
  { j \in JobsOf(store, c) : j.func = "send_feedback_job" }

\* C1: whatever standup submissions have been made, repeated and concurrent
\* ones included, the standup_responses table holds at most one row for
\* each client and scheduled date, and a further submission for a recorded
\* (client, date) leaves the table as it is.
C1_OneStandupResponsePerClientAndDate ==
  /\ \A c \in ClientIds, d \in Days : StandupRowsOf(c, d) <= 1
  /\ \A c \in ClientIds, d \in Days, w \in WorkspaceIds, ok \in BOOLEAN :
       StandupRowsOf(c, d) > 0 =>
         save_standup_response(standup_responses, c, w, d, ok)
           = standup_responses

\* a standup prompt is delivered whose client and date are recorded: its
\* button can be submitted again
C1_Witness ==
  /\ scheduler
  /\ \E p \in BagToSet(sent) :
       p.kind = "standup" /\ StandupRowsOf(p.client_id, p.date) = 1

\* C2: when remove_client(c) returns True, it leaves no standup config,
\* feedback config, standup response or feedback response of c and no job
\* of c in the scheduler.
C2_RemoveClientLeavesNothing ==
  \A c \in ClientIds :
    LET after == remove_client(Store, c, TRUE)
    IN (scheduler /\ after.returned) =>
         /\ ~after.standup_configs[c].exists
         /\ ~after.feedback_configs[c].exists
         /\ \A r \in BagToSet(after.standup_responses) : r.client_id # c
         /\ \A r \in BagToSet(after.feedback_responses) : r.client_id # c
         /\ JobsOf(after.jobs, c) = {}

\* a client with both configs, a response of each type and both jobs, whose
\* removal returns True
C2_Witness ==
  /\ scheduler
  /\ \E c \in ClientIds :
       /\ remove_client(Store, c, TRUE).returned
       /\ standup_configs[c].exists /\ feedback_configs[c].exists
       /\ \E r \in BagToSet(standup_responses) : r.client_id = c
       /\ \E r \in BagToSet(feedback_responses) : r.client_id = c
       /\ Cardinality(JobsOf(jobs, c)) = 2

\* the day_of_week of a cadence
CadenceDays(schedule_type) ==
  IF schedule_type = "daily" THEN "*" ELSE "mon"

\* C3: for a client whose standups are not paused, pause_client_standups
\* followed by resume_client_standups leaves the standup config as it was
\* (schedule_type, schedule_time, is_paused False) and the scheduler with
\* exactly one standup job of the client, with the cadence, time of day and
\* timezone of before the pause; when the client had its job before, the
\* tables and the job store are exactly as before.
C3_PauseThenResumeRestores ==
  \A c \in ClientIds :
    ( /\ scheduler
      /\ clients[c].exists
      /\ standup_configs[c].exists
      /\ ~standup_configs[c].is_paused )
    => LET paused == pause_client_standups(Store, c, TRUE)
           resumed == resume_client_standups(paused, c, TRUE)
       IN /\ paused.returned /\ resumed.returned
          /\ resumed.standup_configs = standup_configs
          /\ ~resumed.standup_configs[c].is_paused
          /\ Cardinality(StandupJobsOf(resumed.jobs, c)) = 1
          /\ \A j \in StandupJobsOf(resumed.jobs, c) :
               /\ CopiesIn(j, resumed.jobs) = 1
               /\ j.trigger =
                    [day_of_week |->
                       CadenceDays(standup_configs[c].schedule_type),
                     hour |-> standup_configs[c].schedule_time.hour,
                     minute |-> standup_configs[c].schedule_time.minute,
                     timezone |-> clients[c].timezone]
          /\ StandupJobsOf(jobs, c) # {} =>
               [resumed EXCEPT !.returned = FALSE] = Store

\* a Monday-only client that is not paused and has its job, which a pause
\* removes
C3_Witness ==
  /\ scheduler
  /\ \E c \in ClientIds :
       /\ clients[c].exists
       /\ standup_configs[c].exists
       /\ ~standup_configs[c].is_paused
       /\ standup_configs[c].schedule_type = "monday_only"
       /\ Cardinality(StandupJobsOf(jobs, c)) = 1
       /\ StandupJobsOf(pause_client_standups(Store, c, TRUE).jobs, c) = {}

\* C4: while a response of its type is recorded for the client and today, a
\* dispatch puts no prompt in flight, fired once or again: a scheduled
\* firing of a stored job and a manual send alike.
C4_NoSendWhenResponseExists ==
  \A c \in ClientIds, w \in WorkspaceIds :
    /\ ResponseRecorded("standup", c, today) =>
         /\ send_standup_dm(inflight, w, c) = inflight
         /\ send_standup_dm(send_standup_dm(inflight, w, c), w, c) = inflight
    /\ ResponseRecorded("feedback", c, today) =>
         /\ send_feedback_dm(inflight, w, c) = inflight
         /\ send_feedback_dm(send_feedback_dm(inflight, w, c), w, c) = inflight

\* a client that could be prompted (it exists, its standup job is stored,
\* the scheduler runs) has a standup response for today, and a delivered
\* prompt of today
C4_Witness ==
  /\ scheduler
  /\ \E c \in ClientIds :
       /\ clients[c].exists
       /\ Reaches(clients[c].workspace_id, c)
       /\ StandupJobsOf(jobs, c) # {}
       /\ ResponseRecorded("standup", c, today)
       /\ CopiesIn(Prompt("standup", clients[c].workspace_id, c, today), sent)
            > 0

\* C5: while no response is recorded for the client and today, a dispatch
\* puts a prompt in flight although a prompt of the same client and period
\* is already in flight or delivered, and a dispatch fired twice puts two.
C5_NoSendSideDeduplication ==
  \A c \in ClientIds :
    ( /\ clients[c].exists
      /\ Reaches(clients[c].workspace_id, c) )
    => LET w == clients[c].workspace_id
           standup == SetToBag({Prompt("standup", w, c, today)})
           feedback == SetToBag({Prompt("feedback", w, c, today)})
       IN /\ ~ResponseRecorded("standup", c, today) =>
               /\ send_standup_dm(inflight, w, c) = inflight (+) standup
               /\ send_standup_dm(send_standup_dm(inflight, w, c), w, c)
                    = inflight (+) standup (+) standup
          /\ ~ResponseRecorded("feedback", c, today) =>
               /\ send_feedback_dm(inflight, w, c) = inflight (+) feedback
               /\ send_feedback_dm(send_feedback_dm(inflight, w, c), w, c)
                    = inflight (+) feedback (+) feedback

\* two prompts of one client and period are delivered and no response of
\* the period is recorded
C5_Witness ==
  \E p \in BagToSet(sent) :
    /\ CopiesIn(p, sent) = 2
    /\ ~ResponseRecorded(p.kind, p.client_id, p.date)

\* the key '<type>_<workspace_id>_<client_id>' of a job
JobKey(j) ==
  (IF j.func = "send_standup_job" THEN "standup" ELSE "feedback")
    \o "_" \o ToString(j.args[1]) \o "_" \o ToString(j.args[2])

\* a job store holds each job once, under the key of its client and prompt
\* type, and at most one job per client and prompt type
OneJobPerClientAndType(store) ==
  /\ \A j \in BagToSet(store) : CopiesIn(j, store) = 1 /\ j.id = JobKey(j)
  /\ \A j1, j2 \in BagToSet(store) :
       (j1.func = j2.func /\ j1.args[2] = j2.args[2]) => j1 = j2

\* C6: in every reachable state the scheduler holds at most one job per
\* client and prompt type, under the key '<type>_<workspace_id>_<client_id>',
\* and adding the standup or the feedback job of a client whose key is in the
\* store replaces the job: the store holds as many jobs as before.
C6_OneJobPerClientAndType ==
  /\ OneJobPerClientAndType(jobs)
  /\ \A c \in ClientIds :
       (scheduler /\ clients[c].exists) =>
         /\ standup_configs[c].exists =>
              LET added == add_standup_job(scheduler, jobs, c, clients[c],
                                           standup_configs[c])
              IN /\ OneJobPerClientAndType(added)
                 /\ Cardinality(StandupJobsOf(added, c)) = 1
                 /\ StandupJobsOf(jobs, c) # {} =>
                      BagCardinality(added) = BagCardinality(jobs)
         /\ feedback_configs[c].exists =>
              LET added == add_feedback_job(scheduler, jobs, c, clients[c],
                                            feedback_configs[c])
              IN /\ OneJobPerClientAndType(added)
                 /\ Cardinality(FeedbackJobsOf(added, c)) = 1
                 /\ FeedbackJobsOf(jobs, c) # {} =>
                      BagCardinality(added) = BagCardinality(jobs)

\* the store holds the four jobs of two clients, to which a job of a stored
\* key can be added
C6_Witness ==
  /\ scheduler
  /\ BagCardinality(jobs) = 4
  /\ \E c \in ClientIds, d \in ClientIds :
       /\ c # d
       /\ clients[c].exists /\ clients[d].exists
       /\ Cardinality(StandupJobsOf(jobs, c)) = 1
       /\ Cardinality(FeedbackJobsOf(jobs, c)) = 1
       /\ Cardinality(StandupJobsOf(jobs, d)) = 1
       /\ Cardinality(FeedbackJobsOf(jobs, d)) = 1

NineOClock == [hour |-> 9, minute |-> 0]

\* the workspaces that have a row: the ones a handler can pass to a service
ExistingWorkspaces == { w \in WorkspaceIds : workspaces[w] # "" }

\* add_client is called with cadence daily and time 09:00 and returns
AddedDailyAtNine(inp, after) ==
  /\ scheduler
  /\ NextClientId(Store) \in ClientIds
  /\ inp.schedule_type = "daily"
  /\ inp.schedule_time = NineOClock
  /\ after.returned

\* C7 as the specification states it: add_client with cadence daily and time
\* 09:00 leaves exactly one job of the client in the scheduler, firing at
\* 09:00 every day in the client's timezone.
C7_ExactlyOneJob ==
  \A inp \in AddClientInputs, w \in ExistingWorkspaces :
    LET after == add_client(Store, w, inp, TRUE)
        c == NextClientId(Store)
    IN AddedDailyAtNine(inp, after) =>
         /\ Cardinality(JobsOf(after.jobs, c)) = 1
         /\ \A j \in JobsOf(after.jobs, c) :
              j.trigger = [day_of_week |-> "*", hour |-> 9, minute |-> 0,
                           timezone |-> inp.timezone]

\* C7: add_client with cadence daily and time 09:00 leaves exactly one
\* standup job of the client in the scheduler, whose trigger is every day at
\* 09:00 in the client's timezone, and besides it exactly one feedback job
\* of the client, whose trigger is Friday at 15:00 in that timezone.
C7_OneStandupJobAndOneFeedbackJob ==
  \A inp \in AddClientInputs, w \in ExistingWorkspaces :
    LET after == add_client(Store, w, inp, TRUE)
        c == NextClientId(Store)
    IN AddedDailyAtNine(inp, after) =>
         /\ Cardinality(StandupJobsOf(after.jobs, c)) = 1
         /\ Cardinality(FeedbackJobsOf(after.jobs, c)) = 1
         /\ \A j \in JobsOf(after.jobs, c) : CopiesIn(j, after.jobs) = 1
         /\ \A j \in StandupJobsOf(after.jobs, c) :
              j.trigger = [day_of_week |-> "*", hour |-> 9, minute |-> 0,
                           timezone |-> inp.timezone]
         /\ \A j \in FeedbackJobsOf(after.jobs, c) :
              j.trigger = [day_of_week |-> "fri", hour |-> 15, minute |-> 0,
                           timezone |-> inp.timezone]

\* a client added with daily, 09:00 and America/New_York, with the jobs the
\* call left
C7_Witness ==
  /\ scheduler
  /\ \E c \in ClientIds :
       /\ clients[c].exists
       /\ clients[c].timezone = "America/New_York"
       /\ standup_configs[c].exists
       /\ standup_configs[c].schedule_type = "daily"
       /\ standup_configs[c].schedule_time = NineOClock
       /\ Cardinality(JobsOf(jobs, c)) = 2

\* a text that has a character other than white space
NonBlank(text) ==
  /\ ~text.null
  /\ \E i \in 1..Len(text.chars) : text.chars[i] \notin Whitespace

\* the response is flagged, as the specification words it
Flagged(r) ==
  \/ r.feeling_rating <= 2
  \/ r.satisfaction_rating <= 2
  \/ NonBlank(r.blockers)

\* C8: for a FeedbackResponse with both ratings in 1..5, needs_attention
\* holds exactly when a rating is at most 2 or the blockers text is not
\* blank; with both ratings 1 it holds whatever the blockers are; and the
\* post of a flagged response carries the alert marker, also when both
\* ratings are 4 or more.
C8_NeedsAttention ==
  ( /\ response.exists
    /\ response.feeling_rating \in 1..5
    /\ response.satisfaction_rating \in 1..5 )
  => /\ needs_attention(response) <=> Flagged(response)
     /\ (response.feeling_rating = 1 /\ response.satisfaction_rating = 1)
          => needs_attention(response)
     /\ (alert_emoji # NoPost /\ Flagged(response))
          => alert_emoji = "rotating_light "

\* a response with ratings 5 and 4 and a blocker is posted with the alert
\* marker
C8_Witness ==
  /\ response.exists
  /\ response.feeling_rating = 5
  /\ response.satisfaction_rating = 4
  /\ NonBlank(response.blockers)
  /\ alert_emoji = "rotating_light "

\* failures after which the wrapper may call again
Retryable(outcome) ==
  \/ outcome.kind = "Exception"
  \/ /\ outcome.kind = "SlackApiError"
     /\ outcome.error \in {"ratelimited", "internal_error",
                           "service_unavailable", "timeout"}

LastOutcome == outcomes[Len(outcomes)]

RetrySafety ==
  /\ Len(outcomes) <= MaxRetries + 1
  /\ \A i \in 1..(Len(outcomes) - 1) : Retryable(outcomes[i])
  /\ pc = "sleep" => Retryable(LastOutcome)
  /\ pc = "returned" <=> (outcomes # <<>> /\ LastOutcome.kind = "return")
  /\ pc = "returned" => result = LastOutcome.value
  /\ (Len(outcomes) = MaxRetries + 1 /\ LastOutcome.kind # "return")
       => (pc = "raised" /\ raised = LastOutcome)
  /\ pc = "raised" => raised = LastOutcome

\* C9: the wrapper, with max_retries = 3, ends whatever the wrapped call
\* does: it calls it at most max_retries + 1 times, returns the result of
\* the first call that succeeds, calls again only after a rate-limit error,
\* a transient server error or a non-Slack exception, and raises the error
\* of the last allowed attempt when that fails.
C9_RetryTerminates ==
  /\ []RetrySafety
  /\ (pc = "call") ~> (pc \in {"returned", "raised"})

\* the fourth call succeeded after three retries
C9_Witness ==
  /\ pc = "returned"
  /\ Len(outcomes) = MaxRetries + 1
  /\ Len(slept) = MaxRetries

NonRetryableSlackError(outcome) ==
  /\ outcome.kind = "SlackApiError"
  /\ outcome.error \notin {"ratelimited", "internal_error",
                           "service_unavailable", "timeout"}

\* C10: a call that fails with a Slack error other than ratelimited,
\* internal_error, service_unavailable and timeout is the wrapper's last:
\* the wrapper raises that error, with no delay set and no sleep after the
\* call, however many attempts are left.
C10_NonRetryableErrorPropagates ==
  \A i \in 1..Len(outcomes) :
    NonRetryableSlackError(outcomes[i]) =>
      /\ i = Len(outcomes)
      /\ pc = "raised"
      /\ raised = outcomes[i]
      /\ delay = 0
      /\ Len(slept) = i - 1

\* the first call failed with invalid_auth and the wrapper raised it with
\* three attempts left
C10_Witness ==
  /\ Len(outcomes) = 1
  /\ outcomes[1].error = "invalid_auth"
  /\ pc = "raised"
  /\ attempt = 0
  /\ slept = <<>>

\* a step of the run of a job function
JobRunStep == job_pc' # job_pc \/ job_result' # job_result

JobRunSafety ==
  /\ job_result \in {"none", "running", "returned"}
  /\ job_pc = "idle" <=> job_result \in {"none", "returned"}
  /\ (job_pc = "idle" /\ job_exception # "none") =>
       /\ job_result = "returned"
       /\ job_log # {}

\* C11: an exception raised in the run of a fired job function, whichever
\* statement of the dispatch raises it, does not leave the job function: the
\* function returns, the exception is logged, and the run leaves the
\* scheduler running and the job store as it was.
C11_JobExceptionsDoNotPropagate ==
  /\ []JobRunSafety
  /\ [][JobRunStep => (scheduler' = scheduler /\ jobs' = jobs)]_vars

\* session.close() raised in the finally clause of the dispatch of a
\* standup job: the job function logged it and returned, and the job is
\* still stored
C11_Witness ==
  /\ scheduler
  /\ job_pc = "idle"
  /\ job_result = "returned"
  /\ job_exception = "Exception"
  /\ job_args.func = "send_standup_job"
  /\ job_log = {"send_standup_job"}
  /\ CopiesIn(job_args, jobs) = 1
  /\ CopiesIn(JobPrompt(job_args), sent) > 0

\* the block has ended and its caller runs again
TxEnded == tx_pc = "idle" /\ tx_result # "none"

\* C12: when a statement of a db_transaction block or its commit raises,
\* the database is as it was when the block was entered, the exception
\* reaches the caller and the session is closed; when nothing raises, the
\* database is what the block made of it; and the database changes only in
\* the commit, to all changes of the block at once.
C12_TransactionRollsBackAndReraises ==
  /\ [](TxEnded =>
          /\ ~session_open
          /\ tx_exception # "none" =>
               (db_rows = tx_before /\ tx_result = tx_exception)
          /\ tx_exception = "none" =>
               (db_rows = session_rows /\ tx_result = "returned"))
  /\ [][db_rows' # db_rows =>
          (tx_pc = "commit" /\ db_rows' = session_rows)]_vars

\* a block that added a row to a database of one row and whose commit
\* raised has ended
C12_Witness ==
  /\ TxEnded
  /\ tx_exception = "commit"
  /\ tx_result = "commit"
  /\ Cardinality(db_rows) = 1
  /\ db_rows = tx_before

\* a text input the payload lacks
MissingText(input) == input.at \in {"no_block", "no_action", "no_value"}

\* a rating the payload has no selection for
MissingRating(select) ==
  select.at \in {"no_block", "no_action", "no_option", "null", "no_value"}

\* the payload has a message timestamp and a rating it has is a number
FormReadable(payload) ==
  /\ payload.message_ts \in {"valid", "unparseable", "null"}
  /\ payload.kind = "feedback" =>
       \A select \in {payload.feeling_rating, payload.satisfaction_rating} :
         select.at = "value" => select.value \in {<<"1">>, <<"5">>}

FormTextFields(payload) ==
  IF payload.kind = "standup"
    THEN {<<payload.accomplishments, form_saved.accomplishments>>,
          <<payload.working_on, form_saved.working_on>>,
          <<payload.blockers, form_saved.blockers>>}
    ELSE {<<payload.feeling_text, form_saved.feeling_text>>,
          <<payload.improvements, form_saved.improvements>>,
          <<payload.blockers, form_saved.blockers>>}

SuppliedKey(request) ==
  IF request.header_key # "" THEN request.header_key ELSE request.query_key

\* C14: a request to an admin or API endpoint runs the endpoint's handler
\* only if an admin key is configured and the supplied key equals it;
\* otherwise the handler is not run and the response is 503 when no key is
\* configured, 401 when none is supplied and 403 when the key is wrong.
C14_AdminKeyGate ==
  admin_request # NoRequest =>
    IF admin_request.env_key # ""
       /\ SuppliedKey(admin_request) = admin_request.env_key
      THEN TRUE
      ELSE /\ ~admin_response.handler_run
           /\ admin_response.status =
                IF admin_request.env_key = "" THEN 503
                ELSE IF SuppliedKey(admin_request) = "" THEN 401
                ELSE 403


\* the admins of a workspace row, as a set
AdminsOf(workspace) ==
  { admin_user_ids(workspace)[i] : i \in DOMAIN admin_user_ids(workspace) }

\* the step of a create_workspace call
CreateWorkspaceCalled == create_call' # create_call

\* what the create_workspace call of a step did to the table
CreateWorkspaceEffect ==
  LET call == create_call'
      before == WorkspacesOfTeam(workspace_rows, call.team_id)
      after == WorkspacesOfTeam(workspace_rows', call.team_id)
  IN IF call.raised THEN workspace_rows' = workspace_rows
     ELSE /\ workspace_rows' \ after = workspace_rows \ before
          /\ \A v \in after :
               /\ v.team_name = call.team_name
               /\ decrypt_token(v.bot_token) = call.bot_token
               /\ v.bot_user_id = "B" \o call.team_id
               /\ v.scope = "chat:write"
               /\ v.is_active
               /\ IF before = {}
                    THEN /\ admin_user_ids(v) = <<call.installer_user_id>>
                         /\ \A w \in workspace_rows : w.id # v.id
                    ELSE /\ is_admin(v, call.installer_user_id)
                         /\ \A w \in before :
                              /\ v.id = w.id
                              /\ AdminsOf(w) \subseteq AdminsOf(v)
                              /\ v.vibe_check_channel_id =
                                   w.vibe_check_channel_id
          /\ after # {}
          /\ workspace_clients' = workspace_clients

\* C15: after any sequence of create_workspace calls there is at most one
\* Workspace row per team_id; the first call for a team creates the row with
\* the installer as its only admin, and every later call for the team updates
\* that row (name, token, bot user, scope, is_active) and keeps its id, its
\* clients and every admin listed before.
C15_OneWorkspacePerTeam ==
  /\ [](\A team_id \in TeamIds :
          Cardinality(WorkspacesOfTeam(workspace_rows, team_id)) <= 1)
  /\ [][CreateWorkspaceCalled => CreateWorkspaceEffect]_vars

\* a workspace with a client was reinstalled by a second user
\* under a new name and token: both admins are listed
C15_Witness ==
  \E w \in workspace_rows :
     /\ create_call # NoCall
     /\ create_call.team_id = w.team_id
     /\ ~create_call.raised
     /\ create_call.installer_user_id = "U2"
     /\ admin_user_ids(w) = <<"U1", "U2">>
     /\ w.team_name = "Acme Inc"
     /\ decrypt_token(w.bot_token) = "xoxb-2"
     /\ <<w.id, "U1">> \in workspace_clients


\* C16: after any sequence of feedback submissions, repeated submissions of
\* the same prompt included, the feedback_responses table holds at most one
\* row per client and week_ending.
C16_OneFeedbackResponsePerClientAndWeek ==
  \A c \in ClientIds, d \in Days : FeedbackRowsOf(c, d) <= 1


\* what the client management operations manage: the tables, the job store
\* and the notification channel
ManagedState ==
  <<clients, client_seq, standup_configs, feedback_configs,
    standup_responses, feedback_responses, jobs, vibe_check_channel_id>>

\* the step of a modal submission: the process is up before and after
ViewSubmissionStep == scheduler /\ scheduler'

\* C17: the client management operations (add, remove, pause, resume, set
\* notification channel) change the database or the scheduler only when the
\* user who invoked them is listed in the workspace's admin_user_ids; an
\* invocation by another user changes nothing.
C17_OnlyAdminsManageClients ==
  [][(ViewSubmissionStep /\ ~is_workspace_admin(view_submission'.user_id))
       => ManagedState' = ManagedState]_vars


\* the standup config of a client is paused
Paused(c) ==
  clients[c].exists /\ standup_configs[c].exists /\ standup_configs[c].is_paused

\* the standup messages delivered to a client
StandupsSentTo(queue, c) ==
  LET prompts == { p \in BagToSet(queue) :
                     p.kind = "standup" /\ p.client_id = c }
  IN BagCardinality([p \in prompts |-> queue[p]])

\* the step is a resume_client_standups(c) whose commit raised: the client
\* stays paused
ResumeFailed(c) == Becomes(resume_client_standups(Store, c, FALSE))

\* a paused client without a standup job gets none by a step that leaves
\* it paused, unless the step is a call of resume_client_standups
C18_NoJobWhilePaused ==
  \A c \in ClientIds :
     (Paused(c) /\ Paused(c)' /\ StandupJobsOf(jobs, c) = {}
        /\ ~ResumeFailed(c))
       => StandupJobsOf(jobs', c) = {}

\* a successful pause leaves the client without a standup job
C18_PauseRemovesJob ==
  \A c \in ClientIds :
     (scheduler /\ scheduler' /\ ~Paused(c) /\ Paused(c)')
       => StandupJobsOf(jobs', c) = {}

\* no step delivers a standup message to a client that is paused before and
\* after the step
C18_NoDeliveryWhilePaused ==
  \A c \in ClientIds :
     (Paused(c) /\ Paused(c)') =>
        StandupsSentTo(sent', c) = StandupsSentTo(sent, c)

\* C18: between a successful pause_client_standups(c) and the next
\* resume_client_standups(c) no standup prompt is sent to c: the scheduler
\* holds no standup job of c, and no dispatch path (a scheduled firing in
\* flight, a manual send, the startup sync) delivers a standup message to c
\* while is_paused is True.
C18_NoStandupWhilePaused ==
  [][C18_PauseRemovesJob /\ C18_NoJobWhilePaused
       /\ C18_NoDeliveryWhilePaused]_vars


\* the rows and posts of the sentinel client
TestRows ==
  { r \in BagToSet(standup_responses) \cup BagToSet(feedback_responses)
           \cup BagToSet(vibe_posts) : r.client_id = TestClientId }

\* a step in which the message of a test prompt becomes the confirmation
TestPromptConfirmed ==
  \E prompt \in confirmed' \ confirmed : prompt.client_id = TestClientId

\* C19: submissions of test prompts (client_id = -1) never create or change
\* a StandupResponse or FeedbackResponse row and never post to the vibe
\* channel; they only update the prompt message to its confirmation.
C19_TestSubmissionsSaveNothing ==
  /\ [](TestRows = {})
  /\ [][TestPromptConfirmed =>
          /\ standup_responses' = standup_responses
          /\ feedback_responses' = feedback_responses
          /\ vibe_posts' = vibe_posts]_vars

\* with SQLite (no foreign key check) and a vibe channel set, the test
\* feedback prompt was submitted and shows the confirmation, beside the
\* feedback of a client that was saved and posted
C19_Witness ==
  /\ db_sqlite
  /\ vibe_check_channel_id # ""
  /\ \E p \in confirmed : p.client_id = TestClientId /\ p.kind = "feedback"
  /\ \E p \in confirmed : p.client_id \in ClientIds /\ p.kind = "feedback"
  /\ vibe_posts # EmptyBag


\* a call failed with a rate-limit or a transient server error
RetryableFailure(outcome) ==
  /\ outcome.kind = "SlackApiError"
  /\ is_ratelimited(outcome.error) \/ is_transient(outcome.error)

\* C20: the dispatch of either prompt type (send_standup_dm and
\* send_feedback_dm) retries a send that fails with a rate-limit or a
\* transient server error, up to the fixed retry count, before giving up: a
\* failed call with retries left is followed by a sleep and a further call:
\* the dispatch gives up on such an error only after MaxRetries + 1 calls.
C20_BothDispatchesRetry ==
  dm_kind # "none" =>
    \A i \in 1..Len(outcomes) :
       (RetryableFailure(outcomes[i]) /\ i <= MaxRetries) =>
          (i < Len(outcomes) \/ pc \in {"sleep", "call"})


\* clients that are to have a standup job, and a feedback job
StandupDue(c) ==
  /\ clients[c].exists /\ clients[c].is_active
  /\ standup_configs[c].exists /\ ~standup_configs[c].is_paused

FeedbackDue(c) ==
  /\ clients[c].exists /\ clients[c].is_active
  /\ feedback_configs[c].exists /\ feedback_configs[c].is_enabled

\* number of jobs of a function and a client in a job store
JobCount(store, func, c) ==
  LET js == { j \in BagToSet(store) : j.func = func /\ j.args[2] = c }
  IN BagCardinality([j \in js |-> store[j]])

RECURSIVE Sum(_, _)
Sum(f, S) ==
  IF S = {} THEN 0
  ELSE LET x == CHOOSE y \in S : TRUE IN f[x] + Sum(f, S \ {x})

\* the job store holds one standup job for each client due one, one
\* feedback job for each client due one, and no other job
ExactlyTheDueJobs(store) ==
  /\ \A c \in ClientIds :
       /\ JobCount(store, "send_standup_job", c) = IF StandupDue(c) THEN 1 ELSE 0
       /\ JobCount(store, "send_feedback_job", c) = IF FeedbackDue(c) THEN 1 ELSE 0
  /\ BagCardinality(store) =
       Sum([c \in ClientIds |-> JobCount(store, "send_standup_job", c)
                                 + JobCount(store, "send_feedback_job", c)],
           ClientIds)

\* C21: after init_scheduler on startup with the in-memory job store the job
\* set is exactly one standup job for every unpaused StandupConfig of an
\* active client and one feedback job for every enabled FeedbackConfig of an
\* active client; paused configs and inactive clients get no job, and a job
\* set that matches the database is the one a restart builds again.
C21_SyncRebuildsExactlyTheDueJobs ==
  /\ [](ExactlyTheDueJobs(sync_jobs_from_database(EmptyBag)))
  /\ []((scheduler /\ ExactlyTheDueJobs(jobs))
          => sync_jobs_from_database(EmptyBag) = jobs)
  /\ [][(~scheduler /\ scheduler' /\ db_sqlite)
          => jobs' = sync_jobs_from_database(EmptyBag)]_vars

\* the process is up on the in-memory store with the jobs of the sync: a
\* paused client without a standup job beside a client with both jobs
C21_Witness ==
  /\ scheduler /\ db_sqlite
  /\ jobs = sync_jobs_from_database(EmptyBag)
  /\ \E c \in ClientIds :
       /\ standup_configs[c].exists /\ standup_configs[c].is_paused
       /\ JobCount(jobs, "send_standup_job", c) = 0
       /\ JobCount(jobs, "send_feedback_job", c) = 1
  /\ \E c \in ClientIds :
       StandupDue(c) /\ JobCount(jobs, "send_standup_job", c) = 1


\* a step that saves a response row
StandupSaved == BagCardinality(standup_responses') > BagCardinality(standup_responses)

FeedbackSaved == BagCardinality(feedback_responses') > BagCardinality(feedback_responses)

\* C22: every submitted response, standup as well as feedback, is posted to
\* the vibe check channel of the workspace when that channel is configured.
C22_EveryResponsePosted ==
  [][(vibe_check_channel_id # "" /\ (StandupSaved \/ FeedbackSaved))
       => BagCardinality(vibe_posts') = BagCardinality(vibe_posts) + 1]_vars


\* the delay the claim gives for the retry after a failed call, before
\* jitter, in milliseconds
ClaimedDelay(outcome, attempt_index) ==
  IF outcome.kind = "SlackApiError" /\ outcome.error = "ratelimited"
    THEN Min(IF outcome.retry_after = <<>> THEN BaseDelayMs
             ELSE 1000 * int(outcome.retry_after),
             MaxDelayMs)
    ELSE Min(BaseDelayMs * ExponentialBase ^ attempt_index, MaxDelayMs)

\* a delay is the claimed one: as it is for a rate limit, times a jitter
\* factor otherwise
IsClaimedDelay(d, outcome, attempt_index) ==
  /\ ClaimedDelay(outcome, attempt_index) <= MaxDelayMs
  /\ IF outcome.kind = "SlackApiError" /\ outcome.error = "ratelimited"
       THEN d = ClaimedDelay(outcome, attempt_index)
       ELSE \E jitter \in Jitter :
              d = (ClaimedDelay(outcome, attempt_index) * jitter) \div 1000

\* C23: the delay slept before retry n (attempt index n - 1) is bounded by
\* max_delay before jitter: min(Retry-After, max_delay) for a rate limit,
\* Retry-After being base_delay when the header is absent, and
\* min(base_delay * exponential_base ^ attempt, max_delay) for a transient
\* server error or another exception, non-decreasing in the attempt index
\* (1, 2, 4 seconds with the defaults); no delay is slept after the final
\* failed attempt.
C23_DelaysAreCappedBackoff ==
  /\ \A k \in 1..Len(slept) : IsClaimedDelay(slept[k], outcomes[k], k - 1)
  /\ pc = "sleep" =>
       IsClaimedDelay(delay, outcomes[Len(outcomes)], Len(outcomes) - 1)
  /\ Len(slept) <= MaxRetries
  /\ pc \in {"returned", "raised"} => Len(slept) = Len(outcomes) - 1
  /\ <<backoff(0), backoff(1), backoff(2)>> = <<1000, 2000, 4000>>
  /\ \A n \in 0..(MaxRetries - 1) :
       backoff(n) <= backoff(n + 1) /\ backoff(n + 1) <= MaxDelayMs

\* the wrapper gave up after four failed calls and three sleeps: a
\* Retry-After of 60 seconds capped to 30, then backoffs of the second and
\* third attempt
C23_Witness ==
  /\ pc = "raised"
  /\ Len(outcomes) = MaxRetries + 1
  /\ Len(slept) = MaxRetries
  /\ outcomes[1].error = "ratelimited" /\ outcomes[1].retry_after = <<6, 0>>
  /\ slept[1] = MaxDelayMs
  /\ outcomes[2].error = "timeout"
  /\ outcomes[3].kind = "Exception"
  /\ slept[3] = 5996


\* the rows of a bag that satisfy a test, with their multiplicities
RowsWhere(bag, Test(_)) == [ x \in { y \in BagToSet(bag) : Test(y) } |-> bag[x] ]

\* the rows of a table, or the jobs of a store, that are client d's
RowsOfClient(table, d) ==
  LET OfClient(r) == r.client_id = d IN RowsWhere(table, OfClient)

JobsOfClient(store, d) ==
  LET JobOfClient(j) == j.args[2] = d IN RowsWhere(store, JobOfClient)

\* what a store holds of client d: its configs, its response rows and its
\* scheduled jobs
PartitionOf(s, d) ==
  <<s.standup_configs[d], s.feedback_configs[d],
    RowsOfClient(s.standup_responses, d),
    RowsOfClient(s.feedback_responses, d),
    JobsOfClient(s.jobs, d)>>

\* a step changes the partition of client d
PartitionChanged(d) ==
  \/ standup_configs'[d] # standup_configs[d]
  \/ feedback_configs'[d] # feedback_configs[d]
  \/ /\ standup_responses' # standup_responses
     /\ RowsOfClient(standup_responses', d) # RowsOfClient(standup_responses, d)
  \/ /\ feedback_responses' # feedback_responses
     /\ RowsOfClient(feedback_responses', d)
          # RowsOfClient(feedback_responses, d)
  \/ /\ jobs' # jobs
     /\ JobsOfClient(jobs', d) # JobsOfClient(jobs, d)

\* the clients whose partition a step changes
PartitionsChanged == { d \in ClientIds : PartitionChanged(d) }

\* a client service or a save for client c leaves the partition of d alone
LeavesOthersAlone(c, d) ==
  LET before == PartitionOf(Store, d)
  IN \A ok \in BOOLEAN :
       /\ clients[c].exists =>
            /\ PartitionOf(pause_client_standups(Store, c, ok), d) = before
            /\ PartitionOf(resume_client_standups(Store, c, ok), d) = before
            /\ PartitionOf(remove_client(Store, c, ok), d) = before
       /\ NextClientId(Store) = c =>
            \A inp \in AddClientInputs, w \in ExistingWorkspaces :
               PartitionOf(add_client(Store, w, inp, ok), d) = before
       /\ \A day \in Days, w \in ExistingWorkspaces :
            LET saved ==
                  [Store EXCEPT
                     !.standup_responses =
                        save_standup_response(@, c, w, day, ok),
                     !.feedback_responses =
                        save_feedback_response(@, c, w, day, ok)]
            IN PartitionOf(saved, d) = before

\* C24: clients are independent partitions: add_client,
\* pause_client_standups, resume_client_standups, remove_client, a job
\* firing and a response submission for client c leave unchanged the
\* configs, the response rows and the scheduled jobs of every other client.
C24_ClientsAreIndependent ==
  /\ [](scheduler =>
          \A c \in ClientIds :
             \A d \in ClientIds \ {c} : LeavesOthersAlone(c, d))
  /\ [][(scheduler /\ scheduler') => Cardinality(PartitionsChanged) <= 1]_vars

\* two clients with their configs and jobs and a response row each, where
\* pausing or removing the first changes its own partition
C24_Witness ==
  /\ scheduler
  /\ \A c \in {1, 2} :
       /\ clients[c].exists /\ standup_configs[c].exists
       /\ Cardinality(JobsOf(jobs, c)) = 2
       /\ \E r \in BagToSet(standup_responses) \cup BagToSet(feedback_responses) :
            r.client_id = c
  /\ PartitionOf(remove_client(Store, 1, TRUE), 1) # PartitionOf(Store, 1)
  /\ PartitionOf(pause_client_standups(Store, 1, TRUE), 1) # PartitionOf(Store, 1)


\* the save_feedback_response call makes its step
SaveStep == save_pc' # save_pc

\* a row as it was committed: it is still in the table, with its columns
RowKept(i) ==
  /\ i \in DOMAIN fb_table'
  /\ fb_table'[i].client_id = fb_table[i].client_id
  /\ fb_table'[i].week_ending = fb_table[i].week_ending

\* C25: in save_feedback_response the post to the vibe channel happens only
\* after the FeedbackResponse row has been committed; a failure of that post
\* (no channel, no token, Slack error) neither removes nor changes the
\* committed row and is not raised to the caller; vibe_channel_message_ts
\* is set on a row only after a successful post of that row.
C25_PostFollowsCommit ==
  /\ [](\A k \in DOMAIN channel_messages :
          channel_messages[k] \in DOMAIN fb_table)
  /\ [](\A i \in DOMAIN fb_table :
          fb_table[i].vibe_channel_message_ts # ""
            => \E k \in DOMAIN channel_messages : channel_messages[k] = i)
  /\ [][channel_messages' # channel_messages
          => /\ save_pc = "committed" /\ response_id \in DOMAIN fb_table
             /\ channel_messages' = Append(channel_messages, response_id)
             /\ fb_table' = fb_table]_vars
  /\ [][(save_pc = "committed" /\ SaveStep
           /\ channel_messages' = channel_messages)
          => (fb_table' = fb_table /\ save_pc' = "returned")]_vars
  /\ [][(save_pc = "posted" /\ SaveStep)
          => /\ save_pc' = "returned"
             /\ \A i \in DOMAIN fb_table :
                  /\ RowKept(i)
                  /\ i # response_id => fb_table'[i] = fb_table[i]]_vars
  /\ [][\A i \in DOMAIN fb_table : RowKept(i)]_vars

\* a call returned after a post that failed, its row committed without
\* vibe_channel_message_ts, next to a row that was posted and has it
C25_Witness ==
  /\ save_pc = "returned"
  /\ Len(fb_table) = 2
  /\ response_id = 2
  /\ fb_table[2].vibe_channel_message_ts = ""
  /\ channel_messages = <<1>>
  /\ fb_table[1].vibe_channel_message_ts = "ts"
  /\ vibe_channel = "C1"


\* the scheduler holds the standup job of client c
HoldsStandupJob(c) == JobCount(jobs, "send_standup_job", c) > 0

\* the scheduler holds the feedback job of client c
HoldsFeedbackJob(c) == JobCount(jobs, "send_feedback_job", c) > 0

\* scheduler and database agree on the jobs of every client
SchedulerMatchesDatabase ==
  \A c \in ClientIds :
     /\ HoldsStandupJob(c) <=> StandupDue(c)
     /\ HoldsFeedbackJob(c) <=> FeedbackDue(c)

\* the agreement while no database operation has failed
C26_ConsistentWithoutFailures ==
  (scheduler /\ faults = 0) => SchedulerMatchesDatabase

\* C26: scheduler and database stay consistent in every reachable state,
\* also after an operation whose commit failed: while the scheduler runs it
\* holds the standup job of c iff c exists, is active and has a
\* StandupConfig that is not paused, and the feedback job of c iff c
\* exists, is active and has an enabled FeedbackConfig.
C26_SchedulerMatchesDatabase == scheduler => SchedulerMatchesDatabase


\* the rows a step adds to a table
RowsAdded(before, after) ==
  { r \in BagToSet(after) : CopiesIn(r, after) > CopiesIn(r, before) }

\* the row refers to a client of the database, in the row's workspace
RefersToItsClient(r) ==
  /\ r.client_id \in ClientIds
  /\ clients[r.client_id].exists
  /\ clients[r.client_id].workspace_id = r.workspace_id

\* every row a step saves refers to a client that exists at the save
SavedRowsReferToClients ==
  /\ \A r \in RowsAdded(standup_responses, standup_responses') :
       RefersToItsClient(r)
  /\ \A r \in RowsAdded(feedback_responses, feedback_responses') :
       RefersToItsClient(r)

\* with a database that enforces the foreign key the saved rows refer to
\* their clients
C27_HoldsWithForeignKeys == [][~db_sqlite => SavedRowsReferToClients]_vars

\* C27: every persisted StandupResponse and FeedbackResponse row refers to
\* a client that existed when it was saved, and its workspace_id is that
\* client's workspace_id, for every submission the handlers accept.
C27_ResponsesReferToClients == [][SavedRowsReferToClients]_vars


\* schedule types that are neither 'daily' nor 'monday_only'
InvalidScheduleTypes == {"weekly", ""}

\* the job store after add_standup_job for the config of client c with its
\* schedule_type replaced
AddStandupJobWithType(c, schedule_type) ==
  add_standup_job(scheduler, jobs, c, clients[c],
                  [standup_configs[c] EXCEPT !.schedule_type = schedule_type])

\* with an invalid schedule_type no job is registered
C29_InvalidTypeRegistersNoJob ==
  \A c \in ClientIds :
     (clients[c].exists /\ standup_configs[c].exists) =>
       \A t \in InvalidScheduleTypes :
          \A j \in BagToSet(AddStandupJobWithType(c, t)) :
             CopiesIn(j, AddStandupJobWithType(c, t)) <= CopiesIn(j, jobs)

\* C29: add_standup_job called with a config whose schedule_type is neither
\* 'daily' nor 'monday_only' leaves the scheduler's job set unchanged: it
\* registers no job and neither removes nor alters a registered one.
C29_InvalidTypeLeavesJobs ==
  \A c \in ClientIds :
     (clients[c].exists /\ standup_configs[c].exists) =>
       \A t \in InvalidScheduleTypes : AddStandupJobWithType(c, t) = jobs


\* the step is a pause, resume or remove modal submission
ClientModalStep ==
  /\ bot_team # "" /\ bot_team' = bot_team
  /\ modal'.callback_id \in
       {"pause_client_modal", "resume_client_modal", "remove_client_modal"}

\* the step changes the row, a config, a response row or a job of client c
ClientChanged(c) == clients'[c] # clients[c] \/ c \in PartitionsChanged

\* the client belongs to the workspace of the team
BelongsToTeam(c, team) ==
  /\ clients[c].exists
  /\ clients[c].workspace_id = get_workspace_by_team_id(team)

\* what the modals of a team offer: the submissions that carry a client of
\* the team's workspace change that client only
C28_OwnClientsOnly ==
  [][(ClientModalStep /\ BelongsToTeam(modal'.client_id, modal'.team))
      => \A c \in ClientIds : ClientChanged(c) => c = modal'.client_id]_vars

\* C28: a pause, resume or remove modal submission coming from workspace A
\* only ever changes a client that belongs to workspace A: the client's
\* config, rows and jobs are changed only if the client's workspace_id is
\* the workspace of the submitting team.
C28_SubmissionsStayInWorkspace ==
  [][ClientModalStep
      => \A c \in ClientIds :
            ClientChanged(c) => BelongsToTeam(c, modal'.team)]_vars

====
